---------------------------- MODULE Spec2Model ----------------------------
(***************************************************************************)
(* PathSense: the detection loop (main.py), the haptic alert orchestrator  *)
(* (haptic_controller.py), the ground detector (ground_detector.py) and    *)
(* the winter optimizer (winter_optimization.py).                          *)
(*                                                                         *)
(* Units.  Distances are integers in centimetres (the sensors return       *)
(* round(distance, 2) metres), so 0.5 m is 50.  A ground baseline is the   *)
(* exact fraction <<sum, n>> of the trimmed samples.  Temperatures are     *)
(* whole degrees Celsius.  The program computes in binary64: a comparison  *)
(* of a difference of two readings with a threshold is modelled as the     *)
(* doubles decide it (see TieAbove), the rounding of a sum of samples is   *)
(* not modelled.                                                           *)
(*                                                                         *)
(* Threads.  The program runs the caller of PathSense.start()/stop() (the  *)
(* main thread), one detection thread (_detection_loop) and one daemon     *)
(* thread per alert() call (_vibrate_pattern).  Every step that reads or   *)
(* writes state shared between threads is an action of its own; the steps  *)
(* of one thread that touch only its own locals are folded into the next   *)
(* shared step.  time.sleep(t) only bounds the pause from below, so a      *)
(* sleeping thread resumes at any later step.                              *)
(***************************************************************************)
EXTENDS Integers, Sequences, FiniteSets

\* ------------------------------------------------------------- bounds
\* Detection ticks explored in one run.
MaxTicks == 2
\* Alert session threads started in one run.
MaxSessions == 3
\* Detection ticks explored in one run of the tick's data step on its own.
MaxDataTicks == 4

\* Exceptions raised inside ticks in one run.
MaxFaults == 1

\* --------------------------------------------------------- config.py
DANGER_ZONE == 50
WARNING_ZONE == 150
ALERT_ZONE == 300
GROUND_CALIBRATION_SAMPLES == 50
POTHOLE_THRESHOLD == 15
CURB_THRESHOLD == 10
MAJOR_DROP_THRESHOLD == 30
SLOPE_THRESHOLD == 5
DEFAULT_TEMPERATURE == 0
HISTORY_KEEP == 5
MIN_SENSOR_DISTANCE == 2
MAX_SENSOR_DISTANCE == 400
COLD_TEMP_COMPENSATION == TRUE
SNOW_FILTER_ENABLED == TRUE

\* Python's None for a reading; real readings are >= MIN_SENSOR_DISTANCE.
None == -1

\* The Config object PathSense.__init__ creates and hands to every component
\* (self.config); nothing assigns its attributes afterwards.
VARIABLE config

\* Config() as config.py defines it.
DefaultConfig ==
    [COLD_TEMP_COMPENSATION |-> COLD_TEMP_COMPENSATION,
     SNOW_FILTER_ENABLED |-> SNOW_FILTER_ENABLED,
     GROUND_CALIBRATION_SAMPLES |-> GROUND_CALIBRATION_SAMPLES]

\* config.SENSORS plus the ground sensor SensorController adds, in the
\* insertion order read_all_sensors() iterates in.
SensorOrder ==
    << "front_high", "front_center", "front_low", "left_side", "right_side",
       "ground_sensor" >>

SensorNames == { SensorOrder[i] : i \in 1..Len(SensorOrder) }

UpperSensors == SensorNames \ {"ground_sensor"}

\* config.HAPTIC_MOTORS
Motors == {"front_upper", "front_center", "front_lower", "left", "right"}

\* ------------------------------------------------- environment inputs
\* The transducers that answer in a run; every other one times out on each
\* read (read_sensor returns None).
LiveUpper == {"front_center"}
UpperReadings == {30, 100, 250, 350}
GroundReadings == {100, 135}

ReadingDomain(s) ==
    IF s = "ground_sensor" THEN GroundReadings \cup {None}
    ELSE IF s \in LiveUpper THEN UpperReadings \cup {None}
    ELSE {None}

\* The dicts read_all_sensors() can return.
ReadingVectors == { v \in [SensorNames -> UpperReadings \cup GroundReadings \cup {None}] :
                      \A s \in SensorNames : v[s] \in ReadingDomain(s) }

\* ------------------------------------------------- binary64 arithmetic
\* The program compares differences of doubles with doubles.  For readings
\* a > b in whole centimetres the double a/100 - b/100 is within 1e-15 of
\* (a - b)/100, so a comparison with t/100 is the exact one unless a - b = t;
\* then it is decided by the rounding of the three doubles.  The sets below
\* list, for each threshold t the program uses, the larger operands a in
\* MIN_SENSOR_DISTANCE..MAX_SENSOR_DISTANCE for which a/100 - (a - t)/100
\* evaluates above (or below) t/100 in binary64.
Ranges(pairs) == UNION { (p[1])..(p[2]) : p \in pairs }

\* a/100 - (a - 5)/100 > 0.05  (abs(deviation) > 0.05)
TieAbove5 ==
    Ranges({
      <<14, 14>>, <<17, 17>>, <<20, 20>>, <<23, 23>>, <<26, 28>>, <<34, 34>>,
      <<40, 40>>, <<46, 46>>, <<52, 56>>, <<62, 68>>, <<74, 81>>, <<87, 93>>,
      <<99, 112>>, <<118, 137>>, <<143, 162>>, <<168, 187>>, <<193, 200>>,
      <<202, 202>>, <<204, 204>>, <<206, 206>>, <<208, 208>>, <<210, 210>>,
      <<212, 212>>, <<214, 214>>, <<216, 216>>, <<218, 218>>, <<220, 220>>,
      <<222, 222>>, <<224, 224>>, <<231, 231>>, <<233, 233>>, <<235, 235>>,
      <<237, 237>>, <<239, 239>>, <<241, 241>>, <<243, 243>>, <<245, 245>>,
      <<247, 247>>, <<249, 249>>, <<256, 256>>, <<258, 258>>, <<260, 260>>,
      <<262, 262>>, <<264, 264>>, <<266, 266>>, <<268, 268>>, <<270, 270>>,
      <<272, 272>>, <<274, 274>>, <<281, 281>>, <<283, 283>>, <<285, 285>>,
      <<287, 287>>, <<289, 289>>, <<291, 291>>, <<293, 293>>, <<295, 295>>,
      <<297, 297>>, <<299, 299>>, <<306, 306>>, <<308, 308>>, <<310, 310>>,
      <<312, 312>>, <<314, 314>>, <<316, 316>>, <<318, 318>>, <<320, 320>>,
      <<322, 322>>, <<324, 324>>, <<331, 331>>, <<333, 333>>, <<335, 335>>,
      <<337, 337>>, <<339, 339>>, <<341, 341>>, <<343, 343>>, <<345, 345>>,
      <<347, 347>>, <<349, 349>>, <<356, 356>>, <<358, 358>>, <<360, 360>>,
      <<362, 362>>, <<364, 364>>, <<366, 366>>, <<368, 368>>, <<370, 370>>,
      <<372, 372>>, <<374, 374>>, <<381, 381>>, <<383, 383>>, <<385, 385>>,
      <<387, 387>>, <<389, 389>>, <<391, 391>>, <<393, 393>>, <<395, 395>>,
      <<397, 397>>, <<399, 399>> })

\* a/100 - (a - 10)/100 > 0.10  (deviation < -CURB_THRESHOLD)
TieAbove10 ==
    Ranges({
      <<28, 28>>, <<34, 34>>, <<39, 40>>, <<45, 46>>, <<51, 56>>, <<67, 68>>,
      <<79, 81>>, <<92, 93>>, <<104, 112>>, <<123, 137>>, <<148, 162>>, <<173, 187>>,
      <<198, 200>>, <<202, 202>>, <<204, 204>>, <<206, 206>>, <<208, 208>>,
      <<210, 225>>, <<227, 227>>, <<229, 229>>, <<231, 231>>, <<233, 233>>,
      <<235, 250>>, <<252, 252>>, <<254, 254>>, <<256, 256>>, <<258, 258>>,
      <<260, 275>>, <<277, 277>>, <<279, 279>>, <<281, 281>>, <<283, 283>>,
      <<285, 300>>, <<302, 302>>, <<304, 304>>, <<306, 306>>, <<308, 308>>,
      <<310, 325>>, <<327, 327>>, <<329, 329>>, <<331, 331>>, <<333, 333>>,
      <<335, 350>>, <<352, 352>>, <<354, 354>>, <<356, 356>>, <<358, 358>>,
      <<360, 375>>, <<377, 377>>, <<379, 379>>, <<381, 381>>, <<383, 383>>,
      <<385, 400>> })

\* a/100 - (a - 15)/100 > 0.15  (deviation > POTHOLE_THRESHOLD)
TieAbove15 ==
    Ranges({
      <<17, 17>>, <<20, 20>>, <<23, 23>>, <<26, 28>>, <<33, 34>>, <<39, 40>>,
      <<44, 46>>, <<50, 56>>, <<62, 68>>, <<72, 81>>, <<84, 93>>, <<97, 112>>,
      <<128, 137>>, <<153, 162>>, <<178, 187>>, <<204, 204>>, <<206, 206>>,
      <<208, 208>>, <<210, 210>>, <<212, 212>>, <<214, 214>>, <<216, 216>>,
      <<218, 218>>, <<220, 220>>, <<222, 222>>, <<224, 224>>, <<241, 241>>,
      <<243, 243>>, <<245, 245>>, <<247, 247>>, <<249, 249>>, <<266, 266>>,
      <<268, 268>>, <<270, 270>>, <<272, 272>>, <<274, 274>>, <<291, 291>>,
      <<293, 293>>, <<295, 295>>, <<297, 297>>, <<299, 299>>, <<316, 316>>,
      <<318, 318>>, <<320, 320>>, <<322, 322>>, <<324, 324>>, <<341, 341>>,
      <<343, 343>>, <<345, 345>>, <<347, 347>>, <<349, 349>>, <<366, 366>>,
      <<368, 368>>, <<370, 370>>, <<372, 372>>, <<374, 374>>, <<391, 391>>,
      <<393, 393>>, <<395, 395>>, <<397, 397>>, <<399, 399>> })

\* a/100 - (a - 30)/100 > 0.30  (deviation > MAJOR_DROP_THRESHOLD)
TieAbove30 ==
    Ranges({
      <<33, 34>>, <<39, 40>>, <<45, 46>>, <<51, 56>>, <<65, 68>>, <<77, 81>>,
      <<87, 93>>, <<99, 112>>, <<124, 137>>, <<143, 162>>, <<168, 187>>, <<193, 200>>,
      <<202, 202>>, <<204, 204>>, <<206, 206>>, <<208, 208>>, <<210, 210>>,
      <<212, 212>>, <<214, 214>>, <<216, 216>>, <<218, 225>>, <<227, 227>>,
      <<229, 229>>, <<231, 231>>, <<233, 233>>, <<235, 235>>, <<237, 237>>,
      <<239, 239>>, <<241, 241>>, <<243, 243>>, <<245, 245>>, <<247, 247>>,
      <<249, 249>>, <<256, 256>>, <<258, 258>>, <<260, 260>>, <<262, 262>>,
      <<264, 264>>, <<266, 266>>, <<268, 268>>, <<270, 270>>, <<272, 272>>,
      <<274, 274>>, <<281, 281>>, <<283, 283>>, <<285, 285>>, <<287, 287>>,
      <<289, 289>>, <<291, 291>>, <<293, 293>>, <<295, 295>>, <<297, 297>>,
      <<299, 299>>, <<306, 306>>, <<308, 308>>, <<310, 310>>, <<312, 312>>,
      <<314, 314>>, <<316, 316>>, <<318, 318>>, <<320, 320>>, <<322, 322>>,
      <<324, 324>>, <<331, 331>>, <<333, 333>>, <<335, 335>>, <<337, 337>>,
      <<339, 339>>, <<341, 341>>, <<343, 343>>, <<345, 345>>, <<347, 347>>,
      <<349, 349>>, <<356, 356>>, <<358, 358>>, <<360, 360>>, <<362, 362>>,
      <<364, 364>>, <<366, 366>>, <<368, 368>>, <<370, 370>>, <<372, 372>>,
      <<374, 374>>, <<381, 381>>, <<383, 383>>, <<385, 385>>, <<387, 387>>,
      <<389, 389>>, <<391, 391>>, <<393, 393>>, <<395, 395>>, <<397, 397>>,
      <<399, 399>> })

\* a/100 - (a - 50)/100 > 0.50  (rate_of_change > 0.5)
TieAbove50 ==
    Ranges({
      <<107, 112>>, <<132, 137>>, <<214, 214>>, <<216, 216>>, <<218, 218>>,
      <<220, 220>>, <<222, 222>>, <<224, 224>>, <<239, 239>>, <<241, 241>>,
      <<243, 243>>, <<245, 245>>, <<247, 247>>, <<249, 249>> })

\* a/100 - (a - 20)/100 < 0.20  (max_val - min_val < 0.2)
TieBelow20 ==
    Ranges({
      <<24, 24>>, <<29, 30>>, <<35, 37>>, <<41, 43>>, <<47, 48>>, <<57, 60>>,
      <<69, 76>>, <<82, 88>>, <<94, 101>>, <<113, 132>>, <<138, 157>>, <<163, 182>>,
      <<188, 207>>, <<209, 209>>, <<211, 211>>, <<213, 213>>, <<215, 215>>,
      <<217, 217>>, <<219, 219>>, <<226, 226>>, <<228, 228>>, <<230, 230>>,
      <<232, 232>>, <<234, 234>>, <<236, 236>>, <<238, 238>>, <<240, 240>>,
      <<242, 242>>, <<244, 244>>, <<251, 251>>, <<253, 253>>, <<255, 255>>,
      <<257, 257>>, <<259, 259>>, <<261, 261>>, <<263, 263>>, <<265, 265>>,
      <<267, 267>>, <<269, 269>>, <<276, 276>>, <<278, 278>>, <<280, 280>>,
      <<282, 282>>, <<284, 284>>, <<286, 286>>, <<288, 288>>, <<290, 290>>,
      <<292, 292>>, <<294, 294>>, <<301, 301>>, <<303, 303>>, <<305, 305>>,
      <<307, 307>>, <<309, 309>>, <<311, 311>>, <<313, 313>>, <<315, 315>>,
      <<317, 317>>, <<319, 319>>, <<326, 326>>, <<328, 328>>, <<330, 330>>,
      <<332, 332>>, <<334, 334>>, <<336, 336>>, <<338, 338>>, <<340, 340>>,
      <<342, 342>>, <<344, 344>>, <<351, 351>>, <<353, 353>>, <<355, 355>>,
      <<357, 357>>, <<359, 359>>, <<361, 361>>, <<363, 363>>, <<365, 365>>,
      <<367, 367>>, <<369, 369>>, <<376, 376>>, <<378, 378>>, <<380, 380>>,
      <<382, 382>>, <<384, 384>>, <<386, 386>>, <<388, 388>>, <<390, 390>>,
      <<392, 392>>, <<394, 394>> })

\* a/100 - (a - 10)/100 < 0.10  (height < 0.10)
TieBelow10 ==
    Ranges({
      <<12, 12>>, <<15, 15>>, <<18, 18>>, <<21, 21>>, <<24, 24>>, <<29, 30>>,
      <<35, 38>>, <<41, 44>>, <<47, 50>>, <<57, 66>>, <<69, 78>>, <<82, 91>>,
      <<94, 103>>, <<113, 122>>, <<138, 147>>, <<163, 172>>, <<188, 197>>,
      <<201, 201>>, <<203, 203>>, <<205, 205>>, <<207, 207>>, <<209, 209>>,
      <<226, 226>>, <<228, 228>>, <<230, 230>>, <<232, 232>>, <<234, 234>>,
      <<251, 251>>, <<253, 253>>, <<255, 255>>, <<257, 257>>, <<259, 259>>,
      <<276, 276>>, <<278, 278>>, <<280, 280>>, <<282, 282>>, <<284, 284>>,
      <<301, 301>>, <<303, 303>>, <<305, 305>>, <<307, 307>>, <<309, 309>>,
      <<326, 326>>, <<328, 328>>, <<330, 330>>, <<332, 332>>, <<334, 334>>,
      <<351, 351>>, <<353, 353>>, <<355, 355>>, <<357, 357>>, <<359, 359>>,
      <<376, 376>>, <<378, 378>>, <<380, 380>>, <<382, 382>>, <<384, 384>> })

\* a/100 - (a - 15)/100 < 0.15  (depth < 0.15, height < 0.15)
TieBelow15 ==
    Ranges({
      <<29, 29>>, <<35, 35>>, <<41, 43>>, <<47, 49>>, <<57, 61>>, <<69, 71>>,
      <<82, 83>>, <<94, 96>>, <<113, 127>>, <<138, 152>>, <<163, 177>>, <<188, 203>>,
      <<205, 205>>, <<207, 207>>, <<209, 209>>, <<211, 211>>, <<213, 213>>,
      <<215, 215>>, <<217, 217>>, <<219, 219>>, <<221, 221>>, <<223, 223>>,
      <<225, 240>>, <<242, 242>>, <<244, 244>>, <<246, 246>>, <<248, 248>>,
      <<250, 265>>, <<267, 267>>, <<269, 269>>, <<271, 271>>, <<273, 273>>,
      <<275, 290>>, <<292, 292>>, <<294, 294>>, <<296, 296>>, <<298, 298>>,
      <<300, 315>>, <<317, 317>>, <<319, 319>>, <<321, 321>>, <<323, 323>>,
      <<325, 340>>, <<342, 342>>, <<344, 344>>, <<346, 346>>, <<348, 348>>,
      <<350, 365>>, <<367, 367>>, <<369, 369>>, <<371, 371>>, <<373, 373>>,
      <<375, 390>>, <<392, 392>>, <<394, 394>>, <<396, 396>>, <<398, 398>>,
      <<400, 400>> })

\* a/100 - (a - 30)/100 < 0.30  (depth < 0.30)
TieBelow30 ==
    Ranges({
      <<47, 47>>, <<57, 58>>, <<69, 70>>, <<82, 86>>, <<94, 98>>, <<113, 123>>,
      <<138, 142>>, <<163, 167>>, <<188, 192>>, <<201, 201>>, <<203, 203>>,
      <<205, 205>>, <<207, 207>>, <<209, 209>>, <<211, 211>>, <<213, 213>>,
      <<215, 215>>, <<217, 217>>, <<226, 226>>, <<228, 228>>, <<230, 230>>,
      <<232, 232>>, <<234, 234>>, <<236, 236>>, <<238, 238>>, <<240, 240>>,
      <<242, 242>>, <<244, 244>>, <<246, 246>>, <<248, 248>>, <<250, 255>>,
      <<257, 257>>, <<259, 259>>, <<261, 261>>, <<263, 263>>, <<265, 265>>,
      <<267, 267>>, <<269, 269>>, <<271, 271>>, <<273, 273>>, <<275, 280>>,
      <<282, 282>>, <<284, 284>>, <<286, 286>>, <<288, 288>>, <<290, 290>>,
      <<292, 292>>, <<294, 294>>, <<296, 296>>, <<298, 298>>, <<300, 305>>,
      <<307, 307>>, <<309, 309>>, <<311, 311>>, <<313, 313>>, <<315, 315>>,
      <<317, 317>>, <<319, 319>>, <<321, 321>>, <<323, 323>>, <<325, 330>>,
      <<332, 332>>, <<334, 334>>, <<336, 336>>, <<338, 338>>, <<340, 340>>,
      <<342, 342>>, <<344, 344>>, <<346, 346>>, <<348, 348>>, <<350, 355>>,
      <<357, 357>>, <<359, 359>>, <<361, 361>>, <<363, 363>>, <<365, 365>>,
      <<367, 367>>, <<369, 369>>, <<371, 371>>, <<373, 373>>, <<375, 380>>,
      <<382, 382>>, <<384, 384>>, <<386, 386>>, <<388, 388>>, <<390, 390>>,
      <<392, 392>>, <<394, 394>>, <<396, 396>>, <<398, 398>>, <<400, 400>> })

\* a/100 - (a - 50)/100 < 0.50  (depth < 0.50)
TieBelow50 ==
    Ranges({
      <<57, 58>>, <<69, 70>>, <<82, 84>>, <<94, 96>>, <<113, 118>>, <<138, 143>>,
      <<201, 201>>, <<203, 203>>, <<205, 205>>, <<207, 207>>, <<209, 209>>,
      <<211, 211>>, <<226, 226>>, <<228, 228>>, <<230, 230>>, <<232, 232>>,
      <<234, 234>>, <<236, 236>> })

TieAbove(t) ==
    CASE t = 5 -> TieAbove5
      [] t = 10 -> TieAbove10
      [] t = 15 -> TieAbove15
      [] t = 30 -> TieAbove30
      [] t = 50 -> TieAbove50

\* a/100 - b/100 > t/100 in binary64, for whole centimetres a, b and t > 0.
DiffAbove(a, b, t) == IF a - b = t THEN a \in TieAbove(t) ELSE a - b > t

TieBelow(t) ==
    CASE t = 10 -> TieBelow10
      [] t = 15 -> TieBelow15
      [] t = 20 -> TieBelow20
      [] t = 30 -> TieBelow30
      [] t = 50 -> TieBelow50

\* ------------------------------------------- winter_optimization.py
\* adjust_for_temperature without the test of COLD_TEMP_COMPENSATION.
adjust_for_temperature_always(distance_reading, temp) ==
    IF distance_reading = None THEN None
    ELSE LET num == distance_reading * (331300 + 606 * temp)
             den == 343000
         IN  (2 * num + den) \div (2 * den)

\* adjust_for_temperature with the factor upside down: standard_speed /
\* actual_speed.
adjust_for_temperature_inverse(distance_reading, temp) ==
    IF ~config.COLD_TEMP_COMPENSATION THEN distance_reading
    ELSE IF distance_reading = None THEN None
    ELSE LET num == distance_reading * 343000
             den == 331300 + 606 * temp
         IN  (2 * num + den) \div (2 * den)

\* round(distance * (331.3 + 0.606*T) / 343.0, 2), in centimetres.
adjust_for_temperature(distance_reading, temp) ==
    IF ~config.COLD_TEMP_COMPENSATION THEN distance_reading
    ELSE IF distance_reading = None THEN None
    ELSE LET num == distance_reading * (331300 + 606 * temp)
             den == 343000
         IN  (2 * num + den) \div (2 * den)

RECURSIVE SeqSum(_)
SeqSum(s) == IF s = << >> THEN 0 ELSE Head(s) + SeqSum(Tail(s))

RECURSIVE SeqSumSq(_)
SeqSumSq(s) == IF s = << >> THEN 0 ELSE Head(s) * Head(s) + SeqSumSq(Tail(s))

SeqMax(s) == CHOOSE x \in {s[i] : i \in 1..Len(s)} : \A j \in 1..Len(s) : s[j] <= x
SeqMin(s) == CHOOSE x \in {s[i] : i \in 1..Len(s)} : \A j \in 1..Len(s) : s[j] >= x

Abs(x) == IF x < 0 THEN -x ELSE x

\* The slice [:n] in place of [-n:].
FirstN(s, n) == IF Len(s) <= n THEN s ELSE SubSeq(s, 1, n)

\* The slice s[-n:]
LastN(s, n) == IF Len(s) <= n THEN s ELSE SubSeq(s, Len(s) - n + 1, Len(s))

\* _calculate_variance(readings) > 0.4 m^2, as n*sum(x^2) - sum(x)^2 > 4000*n^2
\* in cm^2 (history entries are never None).  The comparison is the exact
\* one; a history whose variance is exactly 0.4 m^2 is decided in the
\* program by the rounding of the double (for the histories over
\* FilterHistoryValues below the double is exactly 0.4).
VarianceAbove(readings) ==
    IF Len(readings) < 2 THEN FALSE
    ELSE LET n == Len(readings)
         IN  n * SeqSumSq(readings) - SeqSum(readings) * SeqSum(readings) > 4000 * n * n

\* _is_consistent_obstacle comparing current with the latest entry alone.
is_consistent_obstacle_latest(history, current) ==
    IF Len(history) < 3 THEN FALSE
    ELSE Abs(current - history[Len(history)]) < 20

\* _is_consistent_obstacle: (max_val - min_val) < 0.2 over history[-3:] +
\* [current].
is_consistent_obstacle(history, current) ==
    IF Len(history) < 3 THEN FALSE
    ELSE LET recent == Append(LastN(history, 3), current)
             max_val == SeqMax(recent)
             min_val == SeqMin(recent)
         IN  IF max_val - min_val = 20 THEN max_val \in TieBelow20
             ELSE max_val - min_val < 20

\* filter_snow_particles with 'and' in place of 'or' in the test of the
\* variance and the rate of change.
filter_one_and(current_distance, history) ==
    IF current_distance = None THEN None
    ELSE IF Len(history) < 3 THEN current_distance
    ELSE LET last == history[Len(history)]
             prev == history[Len(history) - 1]
             rate_above == IF last >= prev THEN DiffAbove(last, prev, 50)
                           ELSE DiffAbove(prev, last, 50)
         IN  IF VarianceAbove(history) /\ rate_above
             THEN IF is_consistent_obstacle(history, current_distance)
                  THEN current_distance ELSE None
             ELSE current_distance

\* filter_snow_particles, for one sensor.
filter_one(current_distance, history) ==
    IF current_distance = None THEN None
    ELSE IF Len(history) < 3 THEN current_distance
    ELSE LET last == history[Len(history)]
             prev == history[Len(history) - 1]
             rate_above == IF last >= prev THEN DiffAbove(last, prev, 50)
                           ELSE DiffAbove(prev, last, 50)
         IN  IF VarianceAbove(history) \/ rate_above
             THEN IF is_consistent_obstacle(history, current_distance)
                  THEN current_distance ELSE None
             ELSE current_distance

\* filter_snow_particles without the test of snow_filter_enabled.
filter_snow_particles_always(sensor_readings, history_buffer) ==
    [s \in SensorNames |-> filter_one(sensor_readings[s], history_buffer[s])]

filter_snow_particles(sensor_readings, history_buffer) ==
    IF ~config.SNOW_FILTER_ENABLED THEN sensor_readings
    ELSE [s \in SensorNames |-> filter_one(sensor_readings[s], history_buffer[s])]

\* ------------------------------------------------ ground_detector.py
RECURSIVE InsertSorted(_, _)
InsertSorted(x, s) ==
    IF s = << >> THEN << x >>
    ELSE IF x <= Head(s) THEN << x >> \o s
    ELSE << Head(s) >> \o InsertSorted(x, Tail(s))

RECURSIVE SortSeq(_)
SortSeq(s) == IF s = << >> THEN << >> ELSE InsertSorted(Head(s), SortSeq(Tail(s)))

\* baseline_distance = None
NoBaseline == << >>

\* The baseline as the mean of all the collected readings.
UntrimmedMean(readings) == << SeqSum(readings), Len(readings) >>

\* The baseline calibrate() computes from the collected readings: the mean of
\* the sorted readings without len // 10 entries at each end, as <<sum, n>>.
TrimmedMean(readings) ==
    LET sorted_readings == SortSeq(readings)
        trim_count == Len(sorted_readings) \div 10
        middle_readings ==
            IF trim_count > 0
            THEN SubSeq(sorted_readings, trim_count + 1, Len(sorted_readings) - trim_count)
            ELSE sorted_readings
    IN  << SeqSum(middle_readings), Len(middle_readings) >>

\* calibrate() with > in place of >= in the test of the sample count.
calibrate_late(g, ground_reading) ==
    IF ground_reading = None THEN g
    ELSE LET rs == Append(g.calibration_readings, ground_reading)
         IN  IF Len(rs) > config.GROUND_CALIBRATION_SAMPLES
             THEN [calibration_readings |-> rs,
                   baseline_distance |-> TrimmedMean(rs),
                   calibrated |-> TRUE]
             ELSE [g EXCEPT !.calibration_readings = rs]

\* GroundDetector.calibrate(readings) applied to the detector state g.
calibrate(g, ground_reading) ==
    IF ground_reading = None THEN g
    ELSE LET rs == Append(g.calibration_readings, ground_reading)
         IN  IF Len(rs) >= config.GROUND_CALIBRATION_SAMPLES
             THEN [calibration_readings |-> rs,
                   baseline_distance |-> TrimmedMean(rs),
                   calibrated |-> TRUE]
             ELSE [g EXCEPT !.calibration_readings = rs]

NoHazard == [type |-> "none", severity |-> "none"]

\* x / n < t / 100 as the doubles decide it, for the difference x / n (in
\* centimetres) of two distances of which hi is the larger; a difference of
\* exactly t happens only between whole centimetres.
UnderThreshold(hi, x, n, t) == IF x = t * n THEN hi \in TieBelow(t) ELSE x < t * n

\* _classify_drop without the test of 0.30.
classify_drop_coarse(hi, x, n) ==
    IF UnderThreshold(hi, x, n, 15) THEN "Small depression"
    ELSE IF UnderThreshold(hi, x, n, 20) THEN "Pothole detected"
    ELSE IF UnderThreshold(hi, x, n, 50) THEN "Curb or step down"
    ELSE "Stairs or major drop - DANGER"

\* _classify_drop with <= in place of < in the test of 0.30.
classify_drop_inclusive(hi, x, n) ==
    IF UnderThreshold(hi, x, n, 15) THEN "Small depression"
    ELSE IF UnderThreshold(hi, x, n, 20) THEN "Pothole detected"
    ELSE IF (IF x = 30 * n THEN hi \notin TieAbove(30) ELSE x < 30 * n)
    THEN "Curb or step down"
    ELSE IF UnderThreshold(hi, x, n, 50) THEN "Large drop-off"
    ELSE "Stairs or major drop - DANGER"

\* _classify_drop(depth), depth = x / n = hi - baseline.
classify_drop(hi, x, n) ==
    IF UnderThreshold(hi, x, n, 15) THEN "Small depression"
    ELSE IF UnderThreshold(hi, x, n, 20) THEN "Pothole detected"
    ELSE IF UnderThreshold(hi, x, n, 30) THEN "Curb or step down"
    ELSE IF UnderThreshold(hi, x, n, 50) THEN "Large drop-off"
    ELSE "Stairs or major drop - DANGER"

\* _classify_rise(height), height = x / n = hi - current_distance.
classify_rise(hi, x, n) ==
    IF UnderThreshold(hi, x, n, 10) THEN "Small bump or crack"
    ELSE IF UnderThreshold(hi, x, n, 15) THEN "Curb detected"
    ELSE IF UnderThreshold(hi, x, n, 20) THEN "Step up ahead"
    ELSE "Stairs or large obstacle"

\* detect_hazard without the test of self.calibrated, the baseline starting
\* at 0.0.
detect_hazard_uncalibrated(g, current_distance) ==
    IF current_distance = None THEN NoHazard
    ELSE LET base == IF g.baseline_distance = NoBaseline
                     THEN << 0, 1 >> ELSE g.baseline_distance
             n == base[2]
             deviation == current_distance * n - base[1]
             baseline == base[1] \div n
             Above(t) == IF deviation = t * n
                         THEN DiffAbove(current_distance, baseline, t)
                         ELSE deviation > t * n
             Below(t) == IF deviation = -(t * n)
                         THEN DiffAbove(baseline, current_distance, t)
                         ELSE deviation < -(t * n)
         IN  IF Above(POTHOLE_THRESHOLD)
             THEN [type |-> "drop_off",
                   depth |-> << deviation, n >>,
                   severity |-> IF Above(MAJOR_DROP_THRESHOLD)
                                THEN "critical" ELSE "warning",
                   description |-> classify_drop(current_distance, deviation, n)]
             ELSE IF Below(CURB_THRESHOLD)
             THEN [type |-> "raised_surface",
                   height |-> << Abs(deviation), n >>,
                   severity |-> "warning",
                   description |-> classify_rise(baseline, Abs(deviation), n)]
             ELSE IF Above(SLOPE_THRESHOLD) \/ Below(SLOPE_THRESHOLD)
             THEN [type |-> "slope",
                   change |-> << deviation, n >>,
                   severity |-> "info",
                   description |-> "Sloped surface detected"]
             ELSE NoHazard

\* detect_hazard with the drop test on abs(deviation).
detect_hazard_abs(g, current_distance) ==
    IF ~g.calibrated \/ current_distance = None THEN NoHazard
    ELSE LET n == g.baseline_distance[2]
             deviation == current_distance * n - g.baseline_distance[1]
             baseline == g.baseline_distance[1] \div n
             Above(t) == IF deviation = t * n
                         THEN DiffAbove(current_distance, baseline, t)
                         ELSE deviation > t * n
             Below(t) == IF deviation = -(t * n)
                         THEN DiffAbove(baseline, current_distance, t)
                         ELSE deviation < -(t * n)
         IN  IF Above(POTHOLE_THRESHOLD) \/ Below(POTHOLE_THRESHOLD)
             THEN [type |-> "drop_off",
                   depth |-> << deviation, n >>,
                   severity |-> IF Above(MAJOR_DROP_THRESHOLD)
                                THEN "critical" ELSE "warning",
                   description |-> classify_drop(current_distance, deviation, n)]
             ELSE IF Below(CURB_THRESHOLD)
             THEN [type |-> "raised_surface",
                   height |-> << Abs(deviation), n >>,
                   severity |-> "warning",
                   description |-> classify_rise(baseline, Abs(deviation), n)]
             ELSE IF Above(SLOPE_THRESHOLD) \/ Below(SLOPE_THRESHOLD)
             THEN [type |-> "slope",
                   change |-> << deviation, n >>,
                   severity |-> "info",
                   description |-> "Sloped surface detected"]
             ELSE NoHazard

\* GroundDetector.detect_hazard(current_distance).  deviation is
\* current_distance - baseline_distance multiplied by the baseline's
\* denominator n, and depth, height and change are fractions << x, n >> in
\* centimetres.  A deviation of exactly a threshold happens only for a
\* baseline in whole centimetres and is decided as the doubles decide it.
detect_hazard(g, current_distance) ==
    IF ~g.calibrated \/ current_distance = None THEN NoHazard
    ELSE LET n == g.baseline_distance[2]
             deviation == current_distance * n - g.baseline_distance[1]
             baseline == g.baseline_distance[1] \div n
             Above(t) == IF deviation = t * n
                         THEN DiffAbove(current_distance, baseline, t)
                         ELSE deviation > t * n
             Below(t) == IF deviation = -(t * n)
                         THEN DiffAbove(baseline, current_distance, t)
                         ELSE deviation < -(t * n)
         IN  IF Above(POTHOLE_THRESHOLD)
             THEN [type |-> "drop_off",
                   depth |-> << deviation, n >>,
                   severity |-> IF Above(MAJOR_DROP_THRESHOLD)
                                THEN "critical" ELSE "warning",
                   description |-> classify_drop(current_distance, deviation, n)]
             ELSE IF Below(CURB_THRESHOLD)
             THEN [type |-> "raised_surface",
                   height |-> << Abs(deviation), n >>,
                   severity |-> "warning",
                   description |-> classify_rise(baseline, Abs(deviation), n)]
             ELSE IF Above(SLOPE_THRESHOLD) \/ Below(SLOPE_THRESHOLD)
             THEN [type |-> "slope",
                   change |-> << deviation, n >>,
                   severity |-> "info",
                   description |-> "Sloped surface detected"]
             ELSE NoHazard

\* ---------------------------------------------- haptic_controller.py
\* HapticController._sensor_to_motor: mapping.get(sensor_name, 'front_center')
sensor_to_motor(sensor_name) ==
    CASE sensor_name = "front_high" -> "front_upper"
      [] sensor_name = "front_center" -> "front_center"
      [] sensor_name = "front_low" -> "front_lower"
      [] sensor_name = "left_side" -> "left"
      [] sensor_name = "right_side" -> "right"
      [] sensor_name = "ground_sensor" -> "front_lower"
      [] OTHER -> "front_center"

\* ------------------------------------------------------------ main.py
\* process_obstacle with the thresholds compared against the raw reading.
process_obstacle_raw(sensor_name, raw_distance, temp) ==
    LET distance == raw_distance
    IN  IF distance < DANGER_ZONE
        THEN [op |-> "alert", sensor |-> sensor_name, intensity |-> "high",
              pattern |-> "rapid", cause |-> "obstacle", level |-> "danger"]
        ELSE IF distance < WARNING_ZONE
        THEN [op |-> "alert", sensor |-> sensor_name, intensity |-> "medium",
              pattern |-> "pulse", cause |-> "obstacle", level |-> "warning"]
        ELSE IF distance < ALERT_ZONE
        THEN [op |-> "alert", sensor |-> sensor_name, intensity |-> "low",
              pattern |-> "intermittent", cause |-> "obstacle", level |-> "alert"]
        ELSE [op |-> "stop", sensor |-> sensor_name, intensity |-> "none",
              pattern |-> "none", cause |-> "obstacle", level |-> "clear"]

\* The haptic call _process_obstacle(sensor_name, distance) makes.  level is
\* the event it logs ('danger', 'warning', 'alert'; 'clear' when it logs none).
process_obstacle(sensor_name, raw_distance, temp) ==
    LET distance == adjust_for_temperature(raw_distance, temp)
    IN  IF distance < DANGER_ZONE
        THEN [op |-> "alert", sensor |-> sensor_name, intensity |-> "high",
              pattern |-> "rapid", cause |-> "obstacle", level |-> "danger"]
        ELSE IF distance < WARNING_ZONE
        THEN [op |-> "alert", sensor |-> sensor_name, intensity |-> "medium",
              pattern |-> "pulse", cause |-> "obstacle", level |-> "warning"]
        ELSE IF distance < ALERT_ZONE
        THEN [op |-> "alert", sensor |-> sensor_name, intensity |-> "low",
              pattern |-> "intermittent", cause |-> "obstacle", level |-> "alert"]
        ELSE [op |-> "stop", sensor |-> sensor_name, intensity |-> "none",
              pattern |-> "none", cause |-> "obstacle", level |-> "clear"]

\* process_ground_hazard with the warning branch taking the info session.
process_ground_hazard_weak(hazard) ==
    IF hazard.severity = "critical"
    THEN [op |-> "alert", sensor |-> "front_lower", intensity |-> "high",
          pattern |-> "rapid", cause |-> "ground", level |-> hazard.severity]
    ELSE [op |-> "alert", sensor |-> "front_lower", intensity |-> "low",
          pattern |-> "intermittent", cause |-> "ground", level |-> hazard.severity]

\* The haptic call _process_ground_hazard(hazard) makes.
process_ground_hazard(hazard) ==
    IF hazard.severity = "critical"
    THEN [op |-> "alert", sensor |-> "front_lower", intensity |-> "high",
          pattern |-> "rapid", cause |-> "ground", level |-> hazard.severity]
    ELSE IF hazard.severity = "warning"
    THEN [op |-> "alert", sensor |-> "front_lower", intensity |-> "medium",
          pattern |-> "pulse", cause |-> "ground", level |-> hazard.severity]
    ELSE [op |-> "alert", sensor |-> "front_lower", intensity |-> "low",
          pattern |-> "intermittent", cause |-> "ground", level |-> hazard.severity]

NoCall == [op |-> "none", sensor |-> "none", intensity |-> "none",
           pattern |-> "none", cause |-> "none", level |-> "none"]

\* ---------------------------------------------------------------- state
VARIABLES
    running,            \* PathSense.running
    main_pc,            \* the main thread: where it is in start() / stop()
    det_pc,             \* the detection thread: where it is in _detection_loop
    det_idx,            \* index in SensorOrder of the next sensor_data item
    pending,            \* the alert() call the detection thread is inside
    sensor_data,        \* _detection_loop: sensor_data (after the snow filter)
    sensor_history,     \* _detection_loop: sensor_history
    calibration_count,  \* _detection_loop: calibration_count
    ground_detector,    \* GroundDetector: calibration_readings, baseline, calibrated
    temperature,        \* WinterOptimizer.temperature
    threads,            \* the _vibrate_pattern threads, by order of creation
    nthreads,           \* how many were started
    active_alerts,      \* HapticController.active_alerts: motor -> thread (0: no key)
    motor_states,       \* HapticController.motor_states
    ticks,              \* detection ticks ended (run to the end, or cut short)
    appended,           \* history: per sensor, every reading appended to its history
    ground_seen,        \* history: ground readings read_all_sensors() has returned
    chan_last,          \* history: per motor, the last alert()/stop() that returned
    stages,             \* history: what the current tick has done so far, in order
    steady,             \* history: per sensor, the run of equal readings it is in
    faults,             \* history: exceptions the loop's except clause has caught
    loops,              \* the detection threads of repeated start() / stop() calls
    cl_in,              \* an operation applied on its own: the input
    cl_out              \* an operation applied on its own: the result

vars == << config, running, main_pc, det_pc, det_idx, pending, sensor_data,
           sensor_history, calibration_count, ground_detector, temperature, threads,
           nthreads, active_alerts, motor_states, ticks, appended, ground_seen,
           chan_last, stages, steady, faults, loops, cl_in, cl_out >>

det_vars == << det_pc, det_idx, pending, sensor_data, sensor_history,
               calibration_count, ground_detector, ticks, appended, ground_seen,
               stages, steady, faults >>

\* What no step of the three kinds of thread assigns.
cl_vars == << config, loops, cl_in, cl_out >>

\* main.py line 94: calibration_count < 50
CALIBRATION_TICKS == 50

NoThread == [motor |-> "none", intensity |-> "none", pattern |-> "none",
             stop |-> FALSE, pc |-> "none", cause |-> "none"]

NoInput == [kind |-> "none", sensor |-> "none", raw |-> None]

Truthy(d) == d # None /\ d # 0

RECURSIVE Repeat(_, _)
Repeat(x, n) == IF n = 0 THEN << >> ELSE << x >> \o Repeat(x, n - 1)

\* One thing a tick does: the snow filter ("filter"), a zone or hazard
\* classification ("classify", of a sensor's reading), an alert() or stop()
\* call ("transition", on the motor it resolves to), a data_logger call
\* ("log": log_event for a sensor, log_sensor_data for "sensor_data").
Ev(stage, on) == [stage |-> stage, on |-> on]

\* No reading yet, or the last one was absent: the sensor is in no run.
NoSteady == [value |-> None, count |-> 0, passed |-> FALSE]

\* The run a sensor is in after the readings seq, all of which the snow
\* filter passed.
SteadyAfter(seq) ==
    IF seq = << >> THEN NoSteady
    ELSE LET last == seq[Len(seq)]
             same == { k \in 1..Len(seq) : \A i \in (Len(seq) - k + 1)..Len(seq) : seq[i] = last }
         IN  [value |-> last,
              count |-> CHOOSE k \in same : \A j \in same : j <= k,
              passed |-> TRUE]

\* How many detection threads the repeated start() calls may create.
MaxLoops == 3

\* No start() yet: detection_thread is None.
NoLoops == [i \in 1..MaxLoops |-> "none"]

\* The state after construction (PathSense.__init__).
InitFresh ==
    /\ config = DefaultConfig
    /\ ground_seen = 0
    /\ appended = [s \in SensorNames |-> << >>]
    /\ running = FALSE
    /\ main_pc = "new"
    /\ det_pc = "none"
    /\ det_idx = 1
    /\ pending = NoCall
    /\ sensor_data = [s \in SensorNames |-> None]
    /\ sensor_history = [s \in SensorNames |-> << >>]
    /\ calibration_count = 0
    /\ ground_detector = [calibration_readings |-> << >>,
                          baseline_distance |-> NoBaseline,
                          calibrated |-> FALSE]
    /\ temperature = DEFAULT_TEMPERATURE
    /\ threads = [t \in 1..MaxSessions |-> NoThread]
    /\ nthreads = 0
    /\ active_alerts = [m \in Motors |-> 0]
    /\ motor_states = [m \in Motors |-> FALSE]
    /\ ticks = 0
    /\ chan_last = [m \in Motors |-> "none"]
    /\ cl_in = NoInput
    /\ cl_out = NoCall
    /\ stages = << >>
    /\ steady = [s \in SensorNames |-> NoSteady]
    /\ faults = 0
    /\ loops = NoLoops

\* The running program one ground sample short of calibration: start() was
\* called and 49 ticks ran in which the ground sensor read 1.00 m and every
\* other sensor timed out, so no alert was raised (detect_hazard returns None
\* while uncalibrated) and only the ground sensor has history.
InitWarm ==
    /\ config = DefaultConfig
    /\ ground_seen = GROUND_CALIBRATION_SAMPLES - 1
    /\ appended = [s \in SensorNames |->
                      IF s = "ground_sensor"
                      THEN Repeat(100, GROUND_CALIBRATION_SAMPLES - 1) ELSE << >>]
    /\ running = TRUE
    /\ main_pc = "started"
    /\ det_pc = "loop"
    /\ det_idx = 1
    /\ pending = NoCall
    /\ sensor_data = [s \in SensorNames |-> IF s = "ground_sensor" THEN 100 ELSE None]
    /\ sensor_history = [s \in SensorNames |->
                            IF s = "ground_sensor" THEN Repeat(100, HISTORY_KEEP) ELSE << >>]
    /\ calibration_count = CALIBRATION_TICKS - 1
    /\ ground_detector = [calibration_readings |-> Repeat(100, GROUND_CALIBRATION_SAMPLES - 1),
                          baseline_distance |-> NoBaseline,
                          calibrated |-> FALSE]
    /\ temperature = DEFAULT_TEMPERATURE
    /\ threads = [t \in 1..MaxSessions |-> NoThread]
    /\ nthreads = 0
    /\ active_alerts = [m \in Motors |-> 0]
    /\ motor_states = [m \in Motors |-> FALSE]
    /\ ticks = 0
    /\ chan_last = [m \in Motors |-> "none"]
    /\ cl_in = NoInput
    /\ cl_out = NoCall
    /\ stages = << Ev("filter", "all"), Ev("log", "sensor_data") >>
    /\ steady = [s \in SensorNames |->
                    IF s = "ground_sensor"
                    THEN SteadyAfter(Repeat(100, GROUND_CALIBRATION_SAMPLES - 1))
                    ELSE NoSteady]
    /\ faults = 0
    /\ loops = NoLoops

Init == InitFresh \/ InitWarm

\* ------------------------------------------- HapticController, by step
Registered(m) == active_alerts[m] # 0

\* _motor_on / _motor_off: motor_states[motor_name] = True / False
motor_on(ms, m) == IF m \in Motors THEN [ms EXCEPT ![m] = TRUE] ELSE ms
\* _motor_off that leaves motor_states as it is.
motor_off_noop(ms, m) == ms

motor_off(ms, m) == IF m \in Motors THEN [ms EXCEPT ![m] = FALSE] ELSE ms

\* alert(), lines 49-51: flag the registered session, then sleep 0.05 s.
flag_registered(ths, m) ==
    IF Registered(m) THEN [ths EXCEPT ![active_alerts[m]].stop = TRUE] ELSE ths

\* alert(), lines 54-62: start the thread and register its control dict.
new_session(req, m) ==
    [motor |-> m, intensity |-> req.intensity, pattern |-> req.pattern,
     stop |-> FALSE, pc |-> "while", cause |-> req.cause]

start_session(req, m) ==
    /\ threads' = [threads EXCEPT ![nthreads + 1] = new_session(req, m)]
    /\ nthreads' = nthreads + 1
    /\ active_alerts' = [active_alerts EXCEPT ![m] = nthreads + 1]
    /\ chan_last' = [chan_last EXCEPT ![m] = "alert"]

\* Where the detection thread continues after a haptic call returns.
after_call(req) == IF req.cause = "ground" THEN "log" ELSE "obstacles"

\* alert(sensor_name, intensity, pattern) up to its sleep, or to its end when
\* the motor has no registered session.
alert_begin(req) ==
    LET m == sensor_to_motor(req.sensor)
    IN  /\ nthreads < MaxSessions
        /\ IF m \notin Motors
           THEN /\ det_pc' = after_call(req)
                /\ UNCHANGED << pending, threads, nthreads, active_alerts, chan_last >>
           ELSE IF Registered(m)
           THEN /\ threads' = flag_registered(threads, m)
                /\ pending' = req
                /\ det_pc' = "alert_start"
                /\ UNCHANGED << nthreads, active_alerts, chan_last >>
           ELSE /\ start_session(req, m)
                /\ det_pc' = after_call(req)
                /\ UNCHANGED pending
        /\ UNCHANGED motor_states

\* stop(sensor_name)
stop_call(req) ==
    LET m == sensor_to_motor(req.sensor)
    IN  /\ IF Registered(m)
           THEN /\ threads' = flag_registered(threads, m)
                /\ motor_states' = motor_off(motor_states, m)
           ELSE UNCHANGED << threads, motor_states >>
        /\ chan_last' = [chan_last EXCEPT ![m] = "stop"]
        /\ det_pc' = after_call(req)
        /\ UNCHANGED << pending, nthreads, active_alerts >>

\* ------------------------------------------- _detection_loop, by step
\* _process_obstacle and _process_ground_hazard call log_event after alert()
\* in every branch but the clear one (stop) and the info one.
logs_event(req) == req.op = "alert" /\ req.level # "info"

\* The reading a haptic call was decided from.
source_of(req) == IF req.cause = "ground" THEN "ground_sensor" ELSE req.sensor

\* The call returns without the sleep of alert() lines 49-51.
returns_at_once(req) ==
    \/ req.op = "stop"
    \/ sensor_to_motor(req.sensor) \notin Motors
    \/ ~Registered(sensor_to_motor(req.sensor))

\* What the tick does when alert() / stop() returns: the log_event call.
return_events(req) ==
    IF logs_event(req) THEN << Ev("log", source_of(req)) >> ELSE << >>

\* What the tick does up to the call of alert() / stop() for req, and after
\* it when the call returns at once.
call_events(req) ==
    << Ev("classify", source_of(req)), Ev("transition", sensor_to_motor(req.sensor)) >>
    \o (IF returns_at_once(req) THEN return_events(req) ELSE << >>)

\* The next item of sensor_data.items() that _process_obstacle is called for
\* (0: none left).
NextPresent(i) ==
    LET c == { j \in i..Len(SensorOrder) :
                 /\ SensorOrder[j] # "ground_sensor"
                 /\ sensor_data[SensorOrder[j]] # None }
    IN  IF c = {} THEN 0 ELSE CHOOSE j \in c : \A k \in c : j <= k

\* calibrate() called although the detector is calibrated.
should_calibrate_always(g, count, reading) == Truthy(reading)

\* Lines 94-95: the tick calls ground_detector.calibrate(sensor_data).
should_calibrate(g, count, reading) ==
    /\ ~g.calibrated
    /\ count < CALIBRATION_TICKS
    /\ Truthy(reading)

\* The tick with the history updated from the readings as read, before the
\* snow filter.
tick_data_unfiltered_history(raw) ==
    LET cal == should_calibrate(ground_detector, calibration_count, raw["ground_sensor"])
        filtered == IF config.SNOW_FILTER_ENABLED
                    THEN filter_snow_particles(raw, sensor_history) ELSE raw
    IN  /\ ground_detector' =
               IF cal THEN calibrate(ground_detector, raw["ground_sensor"])
               ELSE ground_detector
        /\ calibration_count' = IF cal THEN calibration_count + 1 ELSE calibration_count
        /\ sensor_data' = filtered
        /\ sensor_history' =
               [s \in SensorNames |->
                   IF raw[s] # None
                   THEN LastN(Append(sensor_history[s], raw[s]), HISTORY_KEEP)
                   ELSE sensor_history[s]]
        /\ appended' =
               [s \in SensorNames |->
                   IF filtered[s] # None
                   THEN Append(appended[s], filtered[s]) ELSE appended[s]]
        /\ ground_seen' = IF raw["ground_sensor"] # None
                          THEN ground_seen + 1 ELSE ground_seen
        /\ steady' =
               [s \in SensorNames |->
                   IF raw[s] = None THEN NoSteady
                   ELSE IF raw[s] = steady[s].value
                   THEN [value |-> raw[s], count |-> steady[s].count + 1,
                         passed |-> steady[s].passed \/ filtered[s] # None]
                   ELSE [value |-> raw[s], count |-> 1, passed |-> filtered[s] # None]]

\* Lines 91-114 for the dict raw that read_all_sensors() returned: the
\* calibration, the snow filter and the history update.
tick_data(raw) ==
    LET cal == should_calibrate(ground_detector, calibration_count, raw["ground_sensor"])
        filtered == IF config.SNOW_FILTER_ENABLED
                    THEN filter_snow_particles(raw, sensor_history) ELSE raw
    IN  /\ ground_detector' =
               IF cal THEN calibrate(ground_detector, raw["ground_sensor"])
               ELSE ground_detector
        /\ calibration_count' = IF cal THEN calibration_count + 1 ELSE calibration_count
        /\ sensor_data' = filtered
        /\ sensor_history' =
               [s \in SensorNames |->
                   IF filtered[s] # None
                   THEN LastN(Append(sensor_history[s], filtered[s]), HISTORY_KEEP)
                   ELSE sensor_history[s]]
        /\ appended' =
               [s \in SensorNames |->
                   IF filtered[s] # None
                   THEN Append(appended[s], filtered[s]) ELSE appended[s]]
        /\ ground_seen' = IF raw["ground_sensor"] # None
                          THEN ground_seen + 1 ELSE ground_seen
        /\ steady' =
               [s \in SensorNames |->
                   IF raw[s] = None THEN NoSteady
                   ELSE IF raw[s] = steady[s].value
                   THEN [value |-> raw[s], count |-> steady[s].count + 1,
                         passed |-> steady[s].passed \/ filtered[s] # None]
                   ELSE [value |-> raw[s], count |-> 1, passed |-> filtered[s] # None]]

\* Lines 88-114: the loop test, read_all_sensors, calibration, the snow filter
\* and the history update.
DetTick ==
    /\ det_pc = "loop"
    /\ running
    /\ ticks < MaxTicks
    /\ \E raw \in ReadingVectors : tick_data(raw)
    /\ stages' = IF config.SNOW_FILTER_ENABLED THEN << Ev("filter", "all") >> ELSE << >>
    /\ det_pc' = "obstacles"
    /\ det_idx' = 1
    /\ UNCHANGED << running, main_pc, pending, temperature, threads, nthreads,
                    active_alerts, motor_states, ticks, chan_last, faults, cl_vars >>

\* Line 88: while self.running fails and the thread ends.
DetExit ==
    /\ det_pc = "loop"
    /\ ~running
    /\ det_pc' = "exit"
    /\ UNCHANGED << running, main_pc, det_idx, pending, sensor_data, sensor_history,
                    calibration_count, ground_detector, temperature, threads, nthreads,
                    active_alerts, motor_states, ticks, appended, ground_seen, chan_last,
                    stages, steady, faults, cl_vars >>

\* Lines 117-119: _process_obstacle for the next present upper-body reading.
DetObstacle ==
    /\ det_pc = "obstacles"
    /\ LET j == NextPresent(det_idx)
       IN  IF j = 0
           THEN /\ det_pc' = "ground"
                /\ UNCHANGED << det_idx, pending, threads, nthreads, active_alerts,
                                motor_states, chan_last, stages >>
           ELSE LET req == process_obstacle(SensorOrder[j], sensor_data[SensorOrder[j]],
                                            temperature)
                IN  /\ det_idx' = j + 1
                    /\ IF req.op = "stop" THEN stop_call(req) ELSE alert_begin(req)
                    /\ stages' = stages \o call_events(req)
    /\ UNCHANGED << running, main_pc, sensor_data, sensor_history, calibration_count,
                    ground_detector, temperature, ticks, appended, ground_seen,
                    steady, faults, cl_vars >>

\* alert() after its sleep: lines 54-62.
DetAlertStart ==
    /\ det_pc = "alert_start"
    /\ start_session(pending, sensor_to_motor(pending.sensor))
    /\ det_pc' = after_call(pending)
    /\ pending' = NoCall
    /\ stages' = stages \o return_events(pending)
    /\ UNCHANGED << running, main_pc, det_idx, sensor_data, sensor_history,
                    calibration_count, ground_detector, temperature, motor_states,
                    ticks, appended, ground_seen, steady, faults,
                    cl_vars >>

\* Lines 122-125: the ground hazard.
DetGround ==
    /\ det_pc = "ground"
    /\ LET hazard == IF Truthy(sensor_data["ground_sensor"])
                     THEN detect_hazard(ground_detector, sensor_data["ground_sensor"])
                     ELSE NoHazard
       IN  IF hazard # NoHazard
           THEN /\ alert_begin(process_ground_hazard(hazard))
                /\ stages' = stages \o call_events(process_ground_hazard(hazard))
           ELSE /\ det_pc' = "log"
                /\ stages' = IF Truthy(sensor_data["ground_sensor"])
                                /\ ground_detector.calibrated
                             THEN Append(stages, Ev("classify", "ground_sensor"))
                             ELSE stages
                /\ UNCHANGED << pending, threads, nthreads, active_alerts, motor_states, chan_last >>
    /\ UNCHANGED << running, main_pc, det_idx, sensor_data, sensor_history,
                    calibration_count, ground_detector, temperature, ticks, appended, ground_seen,
                    steady, faults, cl_vars >>

\* Lines 128-131: log_sensor_data and the sleep of SCAN_INTERVAL.
DetLog ==
    /\ det_pc = "log"
    /\ det_pc' = "loop"
    /\ ticks' = ticks + 1
    /\ stages' = Append(stages, Ev("log", "sensor_data"))
    /\ UNCHANGED << running, main_pc, det_idx, pending, sensor_data, sensor_history,
                    calibration_count, ground_detector, temperature, threads, nthreads,
                    active_alerts, motor_states, appended, ground_seen, chan_last,
                    steady, faults, cl_vars >>

\* An exception that ends the thread: no except clause around the tick.
DetFault_fatal ==
    /\ det_pc \in {"obstacles", "alert_start", "ground", "log"}
    /\ faults < MaxFaults
    /\ det_pc' = "exit"
    /\ pending' = NoCall
    /\ faults' = faults + 1
    /\ ticks' = ticks + 1
    /\ UNCHANGED << running, main_pc, det_idx, sensor_data, sensor_history,
                    calibration_count, ground_detector, temperature, threads, nthreads,
                    active_alerts, motor_states, appended, ground_seen, chan_last,
                    stages, steady, cl_vars >>

\* Lines 89 and 133-135: a call of lines 116-131 raises an Exception (a
\* thread that cannot be started, a failing print); the except clause prints
\* it and sleeps 0.5 s, and the loop test follows.  What the tick had done
\* stays done, and the call it was inside is abandoned.
DetFault ==
    /\ det_pc \in {"obstacles", "alert_start", "ground", "log"}
    /\ faults < MaxFaults
    /\ det_pc' = "loop"
    /\ pending' = NoCall
    /\ faults' = faults + 1
    /\ ticks' = ticks + 1
    /\ UNCHANGED << running, main_pc, det_idx, sensor_data, sensor_history,
                    calibration_count, ground_detector, temperature, threads, nthreads,
                    active_alerts, motor_states, appended, ground_seen, chan_last,
                    stages, steady, cl_vars >>

\* --------------------------------------------- _vibrate_pattern, by step
\* Line 125: while not control['stop'] (on entry, and after sleep(off_time)).
SessWhile(t) ==
    /\ threads[t].pc = "while"
    /\ threads' = [threads EXCEPT ![t].pc = IF threads[t].stop THEN "final" ELSE "on"]
    /\ UNCHANGED << running, main_pc, det_vars, temperature, nthreads, active_alerts,
                    motor_states, chan_last, cl_vars >>

\* Line 126: _motor_on
SessOn(t) ==
    /\ threads[t].pc = "on"
    /\ motor_states' = motor_on(motor_states, threads[t].motor)
    /\ threads' = [threads EXCEPT ![t].pc = "sleep_on"]
    /\ UNCHANGED << running, main_pc, det_vars, temperature, nthreads, active_alerts,
                    chan_last, cl_vars >>

\* Lines 127-130: sleep(on_time), then if control['stop']: break
SessWake(t) ==
    /\ threads[t].pc = "sleep_on"
    /\ threads' = [threads EXCEPT ![t].pc = IF threads[t].stop THEN "final" ELSE "off"]
    /\ UNCHANGED << running, main_pc, det_vars, temperature, nthreads, active_alerts,
                    motor_states, chan_last, cl_vars >>

\* Lines 132-133: _motor_off, then sleep(off_time)
SessOff(t) ==
    /\ threads[t].pc = "off"
    /\ motor_states' = motor_off(motor_states, threads[t].motor)
    /\ threads' = [threads EXCEPT ![t].pc = "while"]
    /\ UNCHANGED << running, main_pc, det_vars, temperature, nthreads, active_alerts,
                    chan_last, cl_vars >>

\* The thread ending without the final _motor_off.
SessFinal_skip(t) ==
    /\ threads[t].pc = "final"
    /\ threads' = [threads EXCEPT ![t].pc = "done"]
    /\ UNCHANGED << running, main_pc, det_vars, temperature, nthreads, active_alerts,
                    motor_states, chan_last, cl_vars >>

\* Line 136: the final _motor_off; the thread ends.
SessFinal(t) ==
    /\ threads[t].pc = "final"
    /\ motor_states' = motor_off(motor_states, threads[t].motor)
    /\ threads' = [threads EXCEPT ![t].pc = "done"]
    /\ UNCHANGED << running, main_pc, det_vars, temperature, nthreads, active_alerts,
                    chan_last, cl_vars >>

\* ------------------------------------------ PathSense.start() / stop()
\* start(): running = True and the detection thread is started.
Start ==
    /\ main_pc = "new"
    /\ ~running
    /\ running' = TRUE
    /\ det_pc' = "loop"
    /\ main_pc' = "started"
    /\ UNCHANGED << det_idx, pending, sensor_data, sensor_history, calibration_count,
                    ground_detector, temperature, threads, nthreads, active_alerts,
                    motor_states, ticks, appended, ground_seen, chan_last,
                    stages, steady, faults, cl_vars >>

\* stop(), line 70: running = False
StopBegin ==
    /\ main_pc = "started"
    /\ running' = FALSE
    /\ main_pc' = "join"
    /\ UNCHANGED << det_vars, temperature, threads, nthreads, active_alerts,
                    motor_states, chan_last, cl_vars >>

\* stop(), line 73: join(timeout=2.0) returns because the thread ended ...
JoinDone ==
    /\ main_pc = "join"
    /\ det_pc = "exit"
    /\ main_pc' = "stop_all"
    /\ UNCHANGED << running, det_vars, temperature, threads, nthreads, active_alerts,
                    motor_states, chan_last, cl_vars >>

\* ... or because the 2 s ran out while the thread is still inside a tick.
JoinTimeout ==
    /\ main_pc = "join"
    /\ det_pc # "exit"
    /\ main_pc' = "stop_all"
    /\ UNCHANGED << running, det_vars, temperature, threads, nthreads, active_alerts,
                    motor_states, chan_last, cl_vars >>

\* stop_all(), lines 74-77: flag every registered session, then sleep 0.1 s.
StopAllFlag ==
    /\ main_pc = "stop_all"
    /\ threads' = [t \in 1..MaxSessions |->
                      IF \E m \in Motors : active_alerts[m] = t
                      THEN [threads[t] EXCEPT !.stop = TRUE] ELSE threads[t]]
    /\ main_pc' = "stop_all_sleep"
    /\ UNCHANGED << running, det_vars, temperature, nthreads, active_alerts,
                    motor_states, chan_last, cl_vars >>

\* stop_all(), lines 80-83: every motor off, active_alerts.clear(); stop()
\* returns.
StopAllOff ==
    /\ main_pc = "stop_all_sleep"
    /\ motor_states' = [m \in Motors |-> FALSE]
    /\ active_alerts' = [m \in Motors |-> 0]
    /\ main_pc' = "stopped"
    /\ UNCHANGED << running, det_vars, temperature, threads, nthreads, chan_last, cl_vars >>

Next ==
    \/ Start
    \/ StopBegin
    \/ JoinDone
    \/ JoinTimeout
    \/ StopAllFlag
    \/ StopAllOff
    \/ DetTick
    \/ DetExit
    \/ DetObstacle
    \/ DetAlertStart
    \/ DetGround
    \/ DetLog
    \/ \E t \in 1..MaxSessions :
         SessWhile(t) \/ SessOn(t) \/ SessWake(t) \/ SessOff(t) \/ SessFinal(t)

Spec == Init /\ [][Next]_vars

\* The same program when calls inside the tick may raise.
NextFault == Next \/ DetFault

SpecFault == Init /\ [][NextFault]_vars

\* ------------------------------------ repeated start() / stop() calls
\* How many detection threads have been created; detection_thread is the
\* latest.
nloops == Cardinality({ i \in 1..MaxLoops : loops[i] # "none" })

\* The main thread is between two calls.
MainIdle == main_pc \in {"new", "started", "stopped"}

\* The other variables of the detection and session threads.
lc_frame == << det_vars, temperature, threads, nthreads, active_alerts, motor_states,
               chan_last, config, cl_in, cl_out >>

\* start(), lines 46-59: nothing when running; else running = True and a
\* new detection thread is started.
LcStart ==
    /\ MainIdle
    /\ nloops < MaxLoops
    /\ IF running
       THEN UNCHANGED << running, main_pc, loops >>
       ELSE /\ running' = TRUE
            /\ loops' = [loops EXCEPT ![nloops + 1] = "test"]
            /\ main_pc' = "started"
    /\ UNCHANGED lc_frame

\* stop(), lines 70-73: running = False, then the join of detection_thread
\* if there is one.
LcStopBegin ==
    /\ MainIdle
    /\ running' = FALSE
    /\ main_pc' = IF nloops = 0 THEN "stop_all" ELSE "join"
    /\ UNCHANGED << loops, lc_frame >>

\* join(timeout=2.0) returns because the latest thread has ended ...
LcJoinDone ==
    /\ main_pc = "join"
    /\ loops[nloops] = "exit"
    /\ main_pc' = "stop_all"
    /\ UNCHANGED << running, loops, lc_frame >>

\* ... or because the 2 s ran out while it is still inside a tick; stop()
\* goes on either way.
LcJoinTimeout ==
    /\ main_pc = "join"
    /\ loops[nloops] # "exit"
    /\ main_pc' = "stop_all"
    /\ UNCHANGED << running, loops, lc_frame >>

\* Line 88, in detection thread i: while self.running
LoopTest(i) ==
    /\ loops[i] = "test"
    /\ loops' = [loops EXCEPT ![i] = IF running THEN "tick" ELSE "exit"]
    /\ UNCHANGED << running, main_pc, lc_frame >>

\* Lines 89-135, in detection thread i: one tick, to its sleep's end.
LoopBody(i) ==
    /\ loops[i] = "tick"
    /\ loops' = [loops EXCEPT ![i] = "test"]
    /\ UNCHANGED << running, main_pc, lc_frame >>

NextLifecycle ==
    \/ LcStart
    \/ LcStopBegin
    \/ LcJoinDone
    \/ LcJoinTimeout
    \/ StopAllFlag
    \/ StopAllOff
    \/ \E i \in 1..MaxLoops : LoopTest(i) \/ LoopBody(i)

SpecLifecycle == InitFresh /\ [][NextLifecycle]_vars

\* ------------------------------ HapticController under fair scheduling
\* The calls _process_obstacle makes for the front_center and front_low
\* sensors: danger, warning and clear.
HapticRequests ==
    { process_obstacle(sn, d, DEFAULT_TEMPERATURE) :
        sn \in {"front_center", "front_low"}, d \in {30, 100, 350} }

\* The detection thread is about to call _process_obstacle; no session yet.
InitSessions ==
    /\ config = DefaultConfig
    /\ ground_seen = 0
    /\ appended = [s \in SensorNames |-> << >>]
    /\ running = TRUE
    /\ main_pc = "started"
    /\ det_pc = "obstacles"
    /\ det_idx = 1
    /\ pending = NoCall
    /\ sensor_data = [s \in SensorNames |-> None]
    /\ sensor_history = [s \in SensorNames |-> << >>]
    /\ calibration_count = 0
    /\ ground_detector = [calibration_readings |-> << >>,
                          baseline_distance |-> NoBaseline,
                          calibrated |-> FALSE]
    /\ temperature = DEFAULT_TEMPERATURE
    /\ threads = [t \in 1..MaxSessions |-> NoThread]
    /\ nthreads = 0
    /\ active_alerts = [m \in Motors |-> 0]
    /\ motor_states = [m \in Motors |-> FALSE]
    /\ ticks = 0
    /\ chan_last = [m \in Motors |-> "none"]
    /\ cl_in = NoInput
    /\ cl_out = NoCall
    /\ stages = << >>
    /\ steady = [s \in SensorNames |-> NoSteady]
    /\ faults = 0
    /\ loops = NoLoops

\* One call of alert() (up to its sleep) or stop() by _process_obstacle.
HapticCall ==
    /\ det_pc = "obstacles"
    /\ \E req \in HapticRequests :
          IF req.op = "stop" THEN stop_call(req) ELSE alert_begin(req)
    /\ UNCHANGED << running, main_pc, det_idx, sensor_data, sensor_history,
                    calibration_count, ground_detector, temperature, ticks, appended,
                    ground_seen, stages, steady, faults, cl_vars >>

\* A step of the _vibrate_pattern thread t.
SessStep(t) == SessWhile(t) \/ SessOn(t) \/ SessWake(t) \/ SessOff(t) \/ SessFinal(t)

NextSessions ==
    \/ HapticCall
    \/ DetAlertStart
    \/ \E t \in 1..MaxSessions : SessStep(t)

\* Every started thread is scheduled again and again and its sleeps return.
FairSessions == \A t \in 1..MaxSessions : WF_vars(SessStep(t))

SpecSessions == InitSessions /\ [][NextSessions]_vars /\ FairSessions

\* ------------------------------- classification of one reading, alone
\* The temperatures set_temperature() is given.
Temperatures == {-20, DEFAULT_TEMPERATURE, 20}

\* Every reading read_sensor() can return for one sensor_data item.
ClassifyInputs ==
    [kind : {"obstacle"}, sensor : UpperSensors,
     raw : (MIN_SENSOR_DISTANCE..MAX_SENSOR_DISTANCE) \cup {None}]
    \cup
    [kind : {"ground"}, sensor : {"ground_sensor"},
     raw : (MIN_SENSOR_DISTANCE..MAX_SENSOR_DISTANCE) \cup {None}]

\* The detector after 50 calibration samples of 1.00 m.
CalibratedDetector ==
    [calibration_readings |-> Repeat(100, GROUND_CALIBRATION_SAMPLES),
     baseline_distance |-> TrimmedMean(Repeat(100, GROUND_CALIBRATION_SAMPLES)),
     calibrated |-> TRUE]

SkipCall == [NoCall EXCEPT !.op = "skip"]

InitClassify ==
    /\ config = DefaultConfig
    /\ ground_seen = GROUND_CALIBRATION_SAMPLES
    /\ appended = [s \in SensorNames |-> << >>]
    /\ running = FALSE
    /\ main_pc = "new"
    /\ det_pc = "none"
    /\ det_idx = 1
    /\ pending = NoCall
    /\ sensor_data = [s \in SensorNames |-> None]
    /\ sensor_history = [s \in SensorNames |-> << >>]
    /\ calibration_count = GROUND_CALIBRATION_SAMPLES
    /\ ground_detector = CalibratedDetector
    /\ temperature \in Temperatures
    /\ threads = [t \in 1..MaxSessions |-> NoThread]
    /\ nthreads = 0
    /\ active_alerts = [m \in Motors |-> 0]
    /\ motor_states = [m \in Motors |-> FALSE]
    /\ ticks = 0
    /\ chan_last = [m \in Motors |-> "none"]
    /\ cl_in \in ClassifyInputs
    /\ cl_out = NoCall
    /\ stages = << >>
    /\ steady = [s \in SensorNames |-> NoSteady]
    /\ faults = 0
    /\ loops = NoLoops

\* main.py lines 117-119, for one item of sensor_data.
ClassifyObstacle ==
    /\ cl_in.kind = "obstacle"
    /\ cl_out = NoCall
    /\ cl_out' = IF cl_in.raw # None
                 THEN process_obstacle(cl_in.sensor, cl_in.raw, temperature)
                 ELSE SkipCall
    /\ UNCHANGED << running, main_pc, det_vars, temperature, threads, nthreads,
                    active_alerts, motor_states, chan_last, config, loops, cl_in >>

\* main.py lines 122-125.
ClassifyGround ==
    /\ cl_in.kind = "ground"
    /\ cl_out = NoCall
    /\ cl_out' = LET hazard == IF Truthy(cl_in.raw)
                               THEN detect_hazard(ground_detector, cl_in.raw)
                               ELSE NoHazard
                 IN  IF hazard # NoHazard THEN process_ground_hazard(hazard) ELSE SkipCall
    /\ UNCHANGED << running, main_pc, det_vars, temperature, threads, nthreads,
                    active_alerts, motor_states, chan_last, config, loops, cl_in >>

NextClassify == ClassifyObstacle \/ ClassifyGround

SpecClassify == InitClassify /\ [][NextClassify]_vars

\* ------------------------------------------- detect_hazard, on its own
\* A detector calibrate() has calibrated from the given samples.
DetectorOf(samples) ==
    [calibration_readings |-> samples,
     baseline_distance |-> TrimmedMean(samples),
     calibrated |-> TRUE]

\* Detectors of a session: new, one sample short of calibration, calibrated
\* on level ground at 1.00 m, at 2.00 m and at 0.33 m (for each of the three
\* the baseline double is the nearest to the decimal), and calibrated while
\* eight of the fifty samples were taken over a 0.35 m dip (baseline
\* 1.02625 m).
Detectors ==
    { [calibration_readings |-> << >>, baseline_distance |-> NoBaseline,
       calibrated |-> FALSE],
      [calibration_readings |-> Repeat(100, GROUND_CALIBRATION_SAMPLES - 1),
       baseline_distance |-> NoBaseline, calibrated |-> FALSE],
      CalibratedDetector,
      DetectorOf(Repeat(200, GROUND_CALIBRATION_SAMPLES)),
      DetectorOf(Repeat(33, GROUND_CALIBRATION_SAMPLES)),
      DetectorOf(Repeat(100, GROUND_CALIBRATION_SAMPLES - 8) \o Repeat(135, 8)) }

HazardInputs ==
    [kind : {"hazard"}, sensor : {"ground_sensor"},
     raw : (MIN_SENSOR_DISTANCE..MAX_SENSOR_DISTANCE) \cup {None}]

InitHazard ==
    /\ config = DefaultConfig
    /\ appended = [s \in SensorNames |-> << >>]
    /\ running = FALSE
    /\ main_pc = "new"
    /\ det_pc = "none"
    /\ det_idx = 1
    /\ pending = NoCall
    /\ sensor_data = [s \in SensorNames |-> None]
    /\ sensor_history = [s \in SensorNames |-> << >>]
    /\ calibration_count = 0
    /\ ground_detector \in Detectors
    /\ ground_seen = Len(ground_detector.calibration_readings)
    /\ temperature = DEFAULT_TEMPERATURE
    /\ threads = [t \in 1..MaxSessions |-> NoThread]
    /\ nthreads = 0
    /\ active_alerts = [m \in Motors |-> 0]
    /\ motor_states = [m \in Motors |-> FALSE]
    /\ ticks = 0
    /\ chan_last = [m \in Motors |-> "none"]
    /\ cl_in \in HazardInputs
    /\ cl_out = NoCall
    /\ stages = << >>
    /\ steady = [s \in SensorNames |-> NoSteady]
    /\ faults = 0
    /\ loops = NoLoops

\* ground_detector.detect_hazard(reading)
DetectHazard ==
    /\ cl_in.kind = "hazard"
    /\ cl_out = NoCall
    /\ cl_out' = detect_hazard(ground_detector, cl_in.raw)
    /\ UNCHANGED << running, main_pc, det_vars, temperature, threads, nthreads,
                    active_alerts, motor_states, chan_last, config, loops, cl_in >>

NextHazard == DetectHazard

SpecHazard == InitHazard /\ [][NextHazard]_vars

\* ------------------------ the data step of the tick, tick after tick
\* Config with GROUND_CALIBRATION_SAMPLES edited down to 5.
ShortConfig == [DefaultConfig EXCEPT !.GROUND_CALIBRATION_SAMPLES = 5]

\* << a, a + 1, ..., b >>
Ramp(a, b) == [i \in 1..(b - a + 1) |-> a + i - 1]

\* Runs so far: the config, the ground readings and the front_center
\* readings of the ticks that have run (the other sensors timed out).  The
\* snow filter passed every one of these readings.
TickPrefixes ==
    { [config |-> DefaultConfig, ground |-> << >>, upper |-> << >>],
      [config |-> DefaultConfig, ground |-> Repeat(100, 4), upper |-> Repeat(100, 4)],
      [config |-> DefaultConfig, ground |-> Repeat(100, 48), upper |-> << >>],
      [config |-> DefaultConfig, ground |-> Ramp(76, 123), upper |-> << >>],
      [config |-> ShortConfig, ground |-> << >>, upper |-> << >>],
      [config |-> ShortConfig, ground |-> Repeat(100, 4), upper |-> Repeat(100, 4)],
      [config |-> DefaultConfig, ground |-> Repeat(100, 3), upper |-> << 100, 250, 100 >>] }

\* The dicts read_all_sensors() returns in these runs.
TickReadings ==
    { v \in [SensorNames -> {None, 100, 110, 135}] :
        /\ v["ground_sensor"] \in {None, 100, 135}
        /\ v["front_center"] \in {None, 100, 110}
        /\ \A s \in SensorNames \ {"ground_sensor", "front_center"} : v[s] = None }

\* The running program after the ticks of a prefix, none of which completed
\* the calibration.
InitTicks ==
    \E pre \in TickPrefixes :
        LET seen(s) == IF s = "ground_sensor" THEN pre.ground
                       ELSE IF s = "front_center" THEN pre.upper ELSE << >>
        IN  /\ config = pre.config
            /\ appended = [s \in SensorNames |-> seen(s)]
            /\ ground_seen = Len(pre.ground)
            /\ running = TRUE
            /\ main_pc = "started"
            /\ det_pc = "loop"
            /\ det_idx = 1
            /\ pending = NoCall
            /\ sensor_data = [s \in SensorNames |->
                                 IF seen(s) = << >> THEN None ELSE seen(s)[Len(seen(s))]]
            /\ sensor_history = [s \in SensorNames |-> LastN(seen(s), HISTORY_KEEP)]
            /\ calibration_count = Len(pre.ground)
            /\ ground_detector = [calibration_readings |-> pre.ground,
                                  baseline_distance |-> NoBaseline,
                                  calibrated |-> FALSE]
            /\ temperature = DEFAULT_TEMPERATURE
            /\ threads = [t \in 1..MaxSessions |-> NoThread]
            /\ nthreads = 0
            /\ active_alerts = [m \in Motors |-> 0]
            /\ motor_states = [m \in Motors |-> FALSE]
            /\ ticks = 0
            /\ chan_last = [m \in Motors |-> "none"]
            /\ cl_in = NoInput
            /\ cl_out = NoCall
            /\ stages = << >>
            /\ steady = [s \in SensorNames |-> SteadyAfter(seen(s))]
            /\ faults = 0
            /\ loops = NoLoops

\* One tick of _detection_loop as far as the detection thread's own data
\* goes (lines 88-114); the calls of lines 116-131 assign none of it.
LoopTick ==
    /\ det_pc = "loop"
    /\ running
    /\ ticks < MaxDataTicks
    /\ \E raw \in TickReadings : tick_data(raw)
    /\ ticks' = ticks + 1
    /\ UNCHANGED << running, main_pc, det_pc, det_idx, pending, temperature, threads,
                    nthreads, active_alerts, motor_states, chan_last, stages, faults,
                    cl_vars >>

NextTicks == LoopTick

SpecTicks == InitTicks /\ [][NextTicks]_vars

\* ------------------------------------ filter_snow_particles, on its own
\* Entries of the history handed to the filter, and current readings.
FilterHistoryValues == {50, 98, 100, 102, 200, 300}
FilterReadings == {100, 101, 120, 300, None}

\* history_buffer[sensor_name]: up to HISTORY_KEEP earlier readings.
FilterHistories == UNION { [1..n -> FilterHistoryValues] : n \in 0..HISTORY_KEEP }

FilterInputs == [kind : {"filter"}, sensor : {"front_center"}, raw : FilterReadings]

\* Config with either flag edited.
Configs ==
    { [DefaultConfig EXCEPT !.SNOW_FILTER_ENABLED = f, !.COLD_TEMP_COMPENSATION = c] :
        f \in BOOLEAN, c \in BOOLEAN }

InitFilter ==
    /\ config \in { c \in Configs : c.COLD_TEMP_COMPENSATION }
    /\ appended = [s \in SensorNames |-> << >>]
    /\ ground_seen = 0
    /\ running = FALSE
    /\ main_pc = "new"
    /\ det_pc = "none"
    /\ det_idx = 1
    /\ pending = NoCall
    /\ sensor_data = [s \in SensorNames |-> None]
    /\ \E h \in FilterHistories :
          sensor_history = [s \in SensorNames |-> IF s = "front_center" THEN h ELSE << >>]
    /\ calibration_count = 0
    /\ ground_detector = [calibration_readings |-> << >>,
                          baseline_distance |-> NoBaseline,
                          calibrated |-> FALSE]
    /\ temperature = DEFAULT_TEMPERATURE
    /\ threads = [t \in 1..MaxSessions |-> NoThread]
    /\ nthreads = 0
    /\ active_alerts = [m \in Motors |-> 0]
    /\ motor_states = [m \in Motors |-> FALSE]
    /\ ticks = 0
    /\ chan_last = [m \in Motors |-> "none"]
    /\ cl_in \in FilterInputs
    /\ cl_out = NoCall
    /\ stages = << >>
    /\ steady = [s \in SensorNames |-> NoSteady]
    /\ faults = 0
    /\ loops = NoLoops

\* winter_optimizer.filter_snow_particles(sensor_data, sensor_history), the
\* entry of one sensor.
ApplyFilter ==
    /\ cl_in.kind = "filter"
    /\ cl_out = NoCall
    /\ LET readings == [s \in SensorNames |-> IF s = cl_in.sensor THEN cl_in.raw ELSE None]
       IN  cl_out' = [op |-> "filtered",
                      value |-> filter_snow_particles(readings, sensor_history)[cl_in.sensor]]
    /\ UNCHANGED << running, main_pc, det_vars, temperature, threads, nthreads,
                    active_alerts, motor_states, chan_last, config, loops, cl_in >>

NextFilter == ApplyFilter

SpecFilter == InitFilter /\ [][NextFilter]_vars

\* ------------------------------------ adjust_for_temperature, on its own
\* Temperatures in whole degrees Celsius.
ConditionTemperatures == {-40, -20, -10, -1, 0, 1, 10, 20, 40}

\* A reading, and the temperature of a call that passes one.
ConditionInputs ==
    [kind : {"adjust"}, sensor : {"front_center"},
     raw : (MIN_SENSOR_DISTANCE..MAX_SENSOR_DISTANCE) \cup {None},
     temp : ConditionTemperatures]

InitCondition ==
    /\ config \in { c \in Configs : c.SNOW_FILTER_ENABLED }
    /\ appended = [s \in SensorNames |-> << >>]
    /\ ground_seen = 0
    /\ running = FALSE
    /\ main_pc = "new"
    /\ det_pc = "none"
    /\ det_idx = 1
    /\ pending = NoCall
    /\ sensor_data = [s \in SensorNames |-> None]
    /\ sensor_history = [s \in SensorNames |-> << >>]
    /\ calibration_count = 0
    /\ ground_detector = [calibration_readings |-> << >>,
                          baseline_distance |-> NoBaseline,
                          calibrated |-> FALSE]
    /\ temperature \in ConditionTemperatures
    /\ threads = [t \in 1..MaxSessions |-> NoThread]
    /\ nthreads = 0
    /\ active_alerts = [m \in Motors |-> 0]
    /\ motor_states = [m \in Motors |-> FALSE]
    /\ ticks = 0
    /\ chan_last = [m \in Motors |-> "none"]
    /\ cl_in \in ConditionInputs
    /\ cl_out = NoCall
    /\ stages = << >>
    /\ steady = [s \in SensorNames |-> NoSteady]
    /\ faults = 0
    /\ loops = NoLoops

\* adjust_for_temperature(raw), which takes self.temperature, and
\* adjust_for_temperature(raw, temp).
Adjust ==
    /\ cl_in.kind = "adjust"
    /\ cl_out = NoCall
    /\ cl_out' = [op |-> "adjusted",
                  value |-> adjust_for_temperature(cl_in.raw, temperature),
                  at |-> adjust_for_temperature(cl_in.raw, cl_in.temp)]
    /\ UNCHANGED << running, main_pc, det_vars, temperature, threads, nthreads,
                    active_alerts, motor_states, chan_last, config, loops, cl_in >>

NextCondition == Adjust

SpecCondition == InitCondition /\ [][NextCondition]_vars

\* ------------------------------------------------------------ properties
SessionIds == 1..MaxSessions

\* A _vibrate_pattern thread that was started and has not ended.
Live(t) == threads[t].pc \notin {"none", "done"}

LiveOn(m) == { t \in SessionIds : Live(t) /\ threads[t].motor = m }

\* The motor's registered session is running: its flag is not set.
Running(m) == Registered(m) /\ ~threads[active_alerts[m]].stop

\* The haptic call the detection thread makes with its next step, if any.
NextCall ==
    IF det_pc = "obstacles" /\ NextPresent(det_idx) # 0
    THEN process_obstacle(SensorOrder[NextPresent(det_idx)],
                          sensor_data[SensorOrder[NextPresent(det_idx)]], temperature)
    ELSE IF det_pc = "ground" /\ Truthy(sensor_data["ground_sensor"])
            /\ detect_hazard(ground_detector, sensor_data["ground_sensor"]) # NoHazard
    THEN process_ground_hazard(detect_hazard(ground_detector, sensor_data["ground_sensor"]))
    ELSE NoCall

\* The hazard of the tick in progress.
TickHazard ==
    IF Truthy(sensor_data["ground_sensor"])
    THEN detect_hazard(ground_detector, sensor_data["ground_sensor"])
    ELSE NoHazard

\* C1: at every instant at most one alert session thread is live for each
\* actuator channel.
C1_AtMostOneLiveSession ==
    \A m \in Motors : Cardinality(LiveOn(m)) <= 1

\* C2: a session is started on a channel only when every earlier session of
\* that channel has ended and the actuator is off, and a session issues no
\* motor command once a later session of its channel has been started.
C2_SupersedeAfterQuiesce ==
    [][ /\ \A t \in SessionIds :
             (threads[t].pc = "none" /\ threads'[t].pc # "none") =>
                 /\ \A u \in SessionIds :
                       (threads[u].pc # "none" /\ threads[u].motor = threads'[t].motor)
                           => threads[u].pc = "done"
                 /\ ~motor_states[threads'[t].motor]
        /\ \A t \in SessionIds :
             (threads[t].pc \in {"on", "off", "final"} /\ threads'[t].pc # threads[t].pc) =>
                 ~ \E u \in SessionIds :
                       /\ u > t
                       /\ threads[u].pc # "none"
                       /\ threads[u].motor = threads[t].motor
      ]_vars

\* C3: alert() for a channel whose running session has the same pattern and
\* intensity, classified again from the same source, changes nothing: the
\* session is not cancelled and no session is started.
C3_SameAlertIsNoOp ==
    [][ LET req == NextCall
            m == sensor_to_motor(req.sensor)
        IN  ( /\ req.op = "alert"
              /\ det_pc' # det_pc
              /\ Running(m)
              /\ Live(active_alerts[m])
              /\ threads[active_alerts[m]].pattern = req.pattern
              /\ threads[active_alerts[m]].intensity = req.intensity
              /\ threads[active_alerts[m]].cause = req.cause )
            => UNCHANGED << threads, nthreads, active_alerts >>
      ]_vars

\* C4: once stop(sensor) has returned, the channel's actuator is off until
\* the next alert() for that channel.
C4_ClearLeavesActuatorOff ==
    \A m \in Motors :
        ( /\ chan_last[m] = "stop"
          /\ ~(det_pc = "alert_start" /\ sensor_to_motor(pending.sensor) = m) )
        => ~motor_states[m]

\* C5: every session started for a ground hazard runs on the lower motor
\* 'front_lower'.
C5_GroundRoutesToLowerMotor ==
    \A t \in SessionIds :
        threads[t].cause = "ground" => threads[t].motor = "front_lower"

\* C6: when all alert transitions of a tick are done, no session is running
\* on the channel of an upper-body sensor whose reading was absent on that
\* tick (a session the tick's own ground hazard started aside).
C6_AbsentReadingClears ==
    det_pc = "log" =>
        \A s \in UpperSensors :
            LET m == sensor_to_motor(s)
            IN  (sensor_data[s] = None /\ Running(m)) =>
                    /\ threads[active_alerts[m]].cause = "ground"
                    /\ TickHazard # NoHazard

\* C7: when the transitions of a tick are done on which the calibrated
\* classifier found the ground normal, every session a ground hazard started
\* is cancelled.
C7_NoHazardCancelsGroundSession ==
    ( /\ det_pc = "log"
      /\ ground_detector.calibrated
      /\ Truthy(sensor_data["ground_sensor"])
      /\ TickHazard = NoHazard )
    => \A t \in SessionIds : threads[t].cause = "ground" => threads[t].stop

\* C8: after PathSense.stop() has returned every actuator is off and no
\* uncancelled session is left.
C8_ShutdownLeavesAllOff ==
    main_pc = "stopped" =>
        /\ \A m \in Motors : ~motor_states[m]
        /\ \A t \in SessionIds : Live(t) => threads[t].stop

\* The zone of a conditioned distance d, by the three ascending thresholds.
ZoneOf(d) ==
    IF d < 50 THEN "danger"
    ELSE IF d >= 50 /\ d < 150 THEN "warning"
    ELSE IF d >= 150 /\ d < 300 THEN "alert"
    ELSE "clear"

\* C9: the zone is a total function of the temperature-conditioned distance:
\* below 0.5 m Danger, [0.5, 1.5) Warning, [1.5, 3.0) Alert, from 3.0 m Clear.
C9_ZoneOfConditionedDistance ==
    (cl_in.kind = "obstacle" /\ cl_in.raw # None /\ cl_out # NoCall) =>
        /\ cl_out.level = ZoneOf(adjust_for_temperature(cl_in.raw, temperature))
        /\ cl_out.level \in {"danger", "warning", "alert", "clear"}
        /\ cl_out.op = IF cl_out.level = "clear" THEN "stop" ELSE "alert"

\* A reading of 0.5 m or more whose conditioned value is below 0.5 m was
\* classified Danger.
C9_Witness ==
    /\ cl_in.kind = "obstacle"
    /\ cl_in.raw # None
    /\ cl_in.raw >= DANGER_ZONE
    /\ cl_out.level = "danger"

\* The session requested for a zone or severity.
SessionFor(level) ==
    CASE level \in {"danger", "critical"} -> << "alert", "rapid", "high" >>
      [] level = "warning" -> << "alert", "pulse", "medium" >>
      [] level \in {"alert", "info"} -> << "alert", "intermittent", "low" >>
      [] OTHER -> << "stop", "none", "none" >>

\* C10: Danger/critical requests (rapid, high), Warning/warning (pulse,
\* medium), Alert/info (intermittent, low), Clear requests stop, and no other
\* request is made.
C10_SeverityToSession ==
    cl_out.op \notin {"none", "skip"} =>
        LET level == IF cl_in.kind = "obstacle"
                     THEN ZoneOf(adjust_for_temperature(cl_in.raw, temperature))
                     ELSE detect_hazard(ground_detector, cl_in.raw).severity
        IN  /\ << cl_out.op, cl_out.pattern, cl_out.intensity >> = SessionFor(level)
            /\ << cl_out.op, cl_out.pattern, cl_out.intensity >> \in
                   { << "alert", "rapid", "high" >>, << "alert", "pulse", "medium" >>,
                     << "alert", "intermittent", "low" >>, << "stop", "none", "none" >> }

\* A ground hazard of severity warning requested its session.
C10_Witness ==
    /\ cl_in.kind = "ground"
    /\ cl_out.op = "alert"
    /\ cl_out.level = "warning"

\* deviation > t and deviation < -t for deviation = r - baseline as
\* detect_hazard computes it (t in centimetres).
DeviationAbove(g, r, t) ==
    LET n == g.baseline_distance[2]
        d == r * n - g.baseline_distance[1]
    IN  IF d = t * n THEN DiffAbove(r, g.baseline_distance[1] \div n, t) ELSE d > t * n

DeviationBelow(g, r, t) ==
    LET n == g.baseline_distance[2]
        d == g.baseline_distance[1] - r * n
    IN  IF d = t * n THEN DiffAbove(g.baseline_distance[1] \div n, r, t) ELSE d > t * n

\* x / n as a fraction equals the fraction f.
SameFraction(x, n, f) == x * f[2] = f[1] * n

\* C11: with a calibrated baseline b and a present reading r, deviation =
\* r - b is classified: above 0.30 drop_off/critical; above 0.15 and not above
\* 0.30 drop_off/warning, with depth = deviation; below -0.10
\* raised_surface/warning with height = |deviation|; otherwise above 0.05 in
\* absolute value slope/info; otherwise no hazard.  With b = 1.00: 1.35 is
\* drop_off critical of depth 0.35, 1.20 drop_off warning, 0.85
\* raised_surface warning of height 0.15.
C11_HazardClassification ==
    (cl_in.kind = "hazard" /\ cl_out # NoCall /\ ground_detector.calibrated
        /\ cl_in.raw # None) =>
        LET g == ground_detector
            r == cl_in.raw
            n == g.baseline_distance[2]
            dev == r * n - g.baseline_distance[1]
            major == DeviationAbove(g, r, 30)
            drop == DeviationAbove(g, r, 15)
            rise == DeviationBelow(g, r, 10)
            slope == DeviationAbove(g, r, 5) \/ DeviationBelow(g, r, 5)
        IN  /\ major =>
                  /\ cl_out.type = "drop_off" /\ cl_out.severity = "critical"
                  /\ SameFraction(dev, n, cl_out.depth)
            /\ (drop /\ ~major) =>
                  /\ cl_out.type = "drop_off" /\ cl_out.severity = "warning"
                  /\ SameFraction(dev, n, cl_out.depth)
            /\ rise =>
                  /\ cl_out.type = "raised_surface" /\ cl_out.severity = "warning"
                  /\ SameFraction(-dev, n, cl_out.height)
            /\ (~drop /\ ~rise /\ slope) =>
                  cl_out.type = "slope" /\ cl_out.severity = "info"
            /\ (~drop /\ ~rise /\ ~slope) => cl_out = NoHazard
            /\ (g = CalibratedDetector /\ r = 135) =>
                  /\ cl_out.type = "drop_off" /\ cl_out.severity = "critical"
                  /\ cl_out.depth = << 35 * n, n >>
            /\ (g = CalibratedDetector /\ r = 120) =>
                  cl_out.type = "drop_off" /\ cl_out.severity = "warning"
            /\ (g = CalibratedDetector /\ r = 85) =>
                  /\ cl_out.type = "raised_surface" /\ cl_out.severity = "warning"
                  /\ cl_out.height = << 15 * n, n >>

\* A raised surface was classified against a baseline that is not a whole
\* number of centimetres.
C11_Witness ==
    /\ cl_in.kind = "hazard"
    /\ ground_detector.calibrated
    /\ ground_detector.baseline_distance[1] % ground_detector.baseline_distance[2] # 0
    /\ cl_out # NoCall
    /\ cl_out # NoHazard
    /\ cl_out.type = "raised_surface"

\* C12: ground classification is skipped while uncalibrated or without a
\* reading: detect_hazard returns no hazard then, the tick makes no ground
\* call, and no session of a ground hazard exists or is being started as long
\* as calibration has not completed.
C12_NoGroundAlertBeforeCalibration ==
    /\ ~ground_detector.calibrated =>
          /\ \A t \in SessionIds : threads[t].cause # "ground"
          /\ pending.cause # "ground"
          /\ det_pc = "ground" => (TickHazard = NoHazard /\ NextCall = NoCall)
    /\ (det_pc = "ground" /\ sensor_data["ground_sensor"] = None) =>
          (TickHazard = NoHazard /\ NextCall = NoCall)

\* A tick has passed its ground step with a ground reading of 1.35 m while
\* the detector was uncalibrated.
C12_Witness ==
    /\ ~ground_detector.calibrated
    /\ det_pc = "log"
    /\ sensor_data["ground_sensor"] = 135
    /\ ground_detector.calibration_readings # << >>

C14_CalibratedIffEnoughSamples ==
    LET g == ground_detector
        target == config.GROUND_CALIBRATION_SAMPLES
    IN  /\ g.calibrated <=> Len(g.calibration_readings) >= target
        /\ g.calibrated <=> ground_seen >= target
        /\ g.calibrated <=> g.baseline_distance # NoBaseline
        /\ \A i \in 1..Len(g.calibration_readings) : g.calibration_readings[i] # None
        /\ ~g.calibrated => Len(g.calibration_readings) = ground_seen
        /\ Len(g.calibration_readings) = calibration_count

\* One sample short of 50, after a tick on which the ground reading was
\* absent.
C14_Witness ==
    /\ config.GROUND_CALIBRATION_SAMPLES = 50
    /\ ~ground_detector.calibrated
    /\ Len(ground_detector.calibration_readings) = 49
    /\ ticks = 2
    /\ sensor_data["ground_sensor"] = None

\* s without one occurrence of x.
RECURSIVE RemoveOne(_, _)
RemoveOne(s, x) ==
    IF s = << >> THEN << >>
    ELSE IF Head(s) = x THEN Tail(s)
    ELSE << Head(s) >> \o RemoveOne(Tail(s), x)

\* s without its k smallest and its k largest entries.
RECURSIVE DropExtremes(_, _)
DropExtremes(s, k) ==
    IF k = 0 THEN s
    ELSE DropExtremes(RemoveOne(RemoveOne(s, SeqMin(s)), SeqMax(RemoveOne(s, SeqMin(s)))),
                      k - 1)

C20_HistoryIsLastFive ==
    \A s \in SensorNames :
        LET k == Len(appended[s])
            m == IF k < 5 THEN k ELSE 5
        IN  /\ Len(sensor_history[s]) = m
            /\ \A i \in 1..m : sensor_history[s][i] = appended[s][k - m + i]

\* The front_center history has overflowed and is not the first five of
\* the readings appended to it.
C20_Witness ==
    /\ Len(appended["front_center"]) > 5
    /\ Len(sensor_history["front_center"]) = 5
    /\ \E i \in 1..5 : sensor_history["front_center"][i] # appended["front_center"][i]

\* The population variance of the history is above 0.4 m^2: the sum of the
\* squared distances to the mean, over n, with everything multiplied by n^2.
PopVarianceAbove(h) ==
    LET n == Len(h)
        total == SeqSum(h)
        Sq(x) == x * x
        sq == [i \in 1..n |-> Sq(n * h[i] - total)]
    IN  SeqSum(sq) > 4000 * n * n * n

\* The reading is suspect: high variance, or the two newest entries apart by
\* more than 0.5 m.
Suspect(h) ==
    LET last == h[Len(h)]
        prev == h[Len(h) - 1]
        hi == IF last >= prev THEN last ELSE prev
        lo == IF last >= prev THEN prev ELSE last
    IN  PopVarianceAbove(h) \/ DiffAbove(hi, lo, 50)

\* The three newest entries and the current reading lie within 0.20 m.
Consistent(h, x) ==
    LET recent == { h[Len(h) - 2], h[Len(h) - 1], h[Len(h)], x }
        hi == CHOOSE a \in recent : \A b \in recent : b <= a
        lo == CHOOSE a \in recent : \A b \in recent : a <= b
    IN  IF hi - lo = 20 THEN hi \in TieBelow20 ELSE hi - lo < 20

\* C16: for a present reading and a history of at least 3 entries, the
\* reading is suspect iff the population variance of the history is above 0.4
\* or the two newest entries differ by more than 0.5; a suspect reading is
\* returned unchanged iff the three newest entries and the reading lie within
\* 0.20 and is replaced by no reading otherwise; a reading that is not
\* suspect is returned unchanged.  [1.0, 1.02, 0.98] passes 1.01, and
\* [1.0, 2.0, 0.5] suppresses 3.0.
C16_FilterDecisionRule ==
    LET h == sensor_history["front_center"]
        x == cl_in.raw
    IN  (cl_in.kind = "filter" /\ cl_out # NoCall /\ config.SNOW_FILTER_ENABLED
            /\ x # None /\ Len(h) >= 3) =>
            /\ cl_out.value = IF Suspect(h)
                               THEN IF Consistent(h, x) THEN x ELSE None
                               ELSE x
            /\ (h = << 100, 102, 98 >> /\ x = 101) => cl_out.value = 101
            /\ (h = << 100, 200, 50 >> /\ x = 300) => cl_out.value = None

\* A suspect reading (high variance) passed because it is consistent with the
\* three newest entries.
C16_Witness ==
    /\ cl_in.kind = "filter"
    /\ config.SNOW_FILTER_ENABLED
    /\ cl_out # NoCall
    /\ Len(sensor_history["front_center"]) >= 3
    /\ cl_in.raw # None
    /\ Suspect(sensor_history["front_center"])
    /\ cl_out.value = cl_in.raw

\* C17: the filter passes the current reading through unchanged whenever
\* filtering is disabled, or the reading is absent (it stays absent), or the
\* history holds fewer than 3 entries.
C17_FilterPassThrough ==
    (cl_in.kind = "filter" /\ cl_out # NoCall
        /\ ( \/ ~config.SNOW_FILTER_ENABLED
             \/ cl_in.raw = None
             \/ Len(sensor_history["front_center"]) < 3 )) =>
        cl_out.value = cl_in.raw

\* With filtering disabled, a reading passed that the enabled filter
\* suppresses.
C17_Witness ==
    /\ cl_in.kind = "filter"
    /\ ~config.SNOW_FILTER_ENABLED
    /\ cl_out # NoCall
    /\ sensor_history["front_center"] = << 100, 200, 50 >>
    /\ cl_in.raw = 300
    /\ cl_out.value = 300

\* C18: conditioning is the identity when compensation is disabled or the
\* reading is absent: the raw reading is returned unchanged (absent stays
\* absent) at every temperature.
C18_ConditioningIdentity ==
    (cl_in.kind = "adjust" /\ cl_out # NoCall
        /\ (~config.COLD_TEMP_COMPENSATION \/ cl_in.raw = None)) =>
        /\ cl_out.value = cl_in.raw
        /\ cl_out.at = cl_in.raw

\* With compensation disabled, a present reading came back unchanged at a
\* temperature at which the enabled compensation changes it.
C18_Witness ==
    /\ cl_in.kind = "adjust"
    /\ ~config.COLD_TEMP_COMPENSATION
    /\ cl_out # NoCall
    /\ cl_in.raw = 100
    /\ temperature = -20
    /\ cl_out.value = 100

\* v is raw * (331.3 + 0.606 * T) / 343.0 rounded to 2 decimal places: it is
\* a whole number of centimetres at most half a centimetre off.
RoundedCondition(v, raw, T) ==
    LET exact == raw * (331300 + 606 * T)
        got == v * 343000
    IN  /\ 2 * (got - exact) <= 343000
        /\ 2 * (exact - got) <= 343000

\* C19: with compensation enabled and a present raw reading, conditioning
\* returns raw * (331.3 + 0.606*T) / 343.0 rounded to 2 decimal places, and
\* it is monotonically increasing in the temperature: T1 < T2 implies
\* condition(raw, T1) <= condition(raw, T2).
C19_ConditioningMonotone ==
    (cl_in.kind = "adjust" /\ cl_out # NoCall
        /\ config.COLD_TEMP_COMPENSATION /\ cl_in.raw # None) =>
        /\ RoundedCondition(cl_out.value, cl_in.raw, temperature)
        /\ RoundedCondition(cl_out.at, cl_in.raw, cl_in.temp)
        /\ temperature < cl_in.temp => cl_out.value <= cl_out.at
        /\ temperature > cl_in.temp => cl_out.value >= cl_out.at
        /\ temperature = cl_in.temp => cl_out.value = cl_out.at

\* One reading conditioned at two temperatures one degree apart came out a
\* centimetre apart.
C19_Witness ==
    /\ cl_in.kind = "adjust"
    /\ config.COLD_TEMP_COMPENSATION
    /\ cl_out # NoCall
    /\ cl_in.raw # None
    /\ temperature = 0
    /\ cl_in.temp = 1
    /\ cl_out.value < cl_out.at


\* ---------------------------------------------------------------- C21
TickDone == det_pc = "loop" /\ stages # << >> /\ stages[Len(stages)] = Ev("log", "sensor_data")

Classified(s) == \E i \in 1..Len(stages) : stages[i] = Ev("classify", s)

\* C21: no sensor failure and no internal fault is fatal to the detection
\* loop.  In a tick that ran to its end every present upper-body reading
\* and a present ground reading were classified, whichever other readings
\* were absent (the ground reading once the detector is calibrated, C12);
\* an exception raised inside a tick leaves the thread at the
\* loop test; and the thread ends only from the loop test with running
\* false.
C21_LoopSurvivesFaults ==
    /\ [](TickDone =>
            /\ \A s \in UpperSensors : sensor_data[s] # None => Classified(s)
            /\ (Truthy(sensor_data["ground_sensor"]) /\ ground_detector.calibrated) =>
                   Classified("ground_sensor"))
    /\ [][faults' > faults => det_pc' = "loop"]_vars
    /\ [][(det_pc' = "exit" /\ det_pc # "exit") => (det_pc = "loop" /\ ~running)]_vars

\* A tick after a caught exception ran to its end and classified the
\* front_center reading although the ground sensor timed out.
C21_Witness ==
    /\ faults > 0
    /\ TickDone
    /\ Classified("front_center")
    /\ sensor_data["ground_sensor"] = None
    /\ sensor_data["front_high"] = None

\* ---------------------------------------------------------------- C22
\* C22: a persistent obstacle is not suppressed forever.  A sensor that has
\* reported the same distance on four ticks in a row has had that reading
\* passed by the snow filter on one of the four.
C22_PersistentObstaclePasses ==
    \A s \in SensorNames : steady[s].count >= 4 => steady[s].passed

\* ---------------------------------------------------------------- C29
\* The latest two entries of a history of three or more differ by more
\* than 0.5 m (rate_of_change > 0.5, as the doubles decide it).
Jumped(h) ==
    /\ Len(h) >= 3
    /\ LET last == h[Len(h)]
           prev == h[Len(h) - 1]
       IN  IF last >= prev THEN DiffAbove(last, prev, 50) ELSE DiffAbove(prev, last, 50)

C30_SuppressedLeavesHistory ==
    /\ [][\A s \in SensorNames :
             (ticks' > ticks /\ sensor_data'[s] = None) =>
                 sensor_history'[s] = sensor_history[s]]_vars
    /\ [](\A s \in SensorNames : \A i \in 1..Len(sensor_history[s]) :
             sensor_history[s][i] # None)
    /\ [][\A s \in SensorNames :
             ticks' > ticks => sensor_data'[s] \in {steady'[s].value, None}]_vars

\* A tick suppressed a present front_center reading and found the ground
\* reading absent.
C30_Witness ==
    /\ ticks >= 1
    /\ steady["front_center"].value # None
    /\ sensor_data["front_center"] = None
    /\ steady["ground_sensor"] = NoSteady
    /\ sensor_history["front_center"] = << 100, 250, 100 >>
    /\ sensor_history["ground_sensor"] = << 100, 100, 100 >>

\* ---------------------------------------------------------------- C23
\* C23: a session leaves its on/off cycle only with its cancellation flag
\* set; once the flag is set the thread ends; the step that ends it leaves
\* its motor off, and an ended thread takes no further step.
C23_SessionEndsOnlyWhenCancelled ==
    /\ [](\A t \in SessionIds : threads[t].pc \in {"final", "done"} => threads[t].stop)
    /\ \A t \in SessionIds : (threads[t].stop ~> threads[t].pc = "done")
    /\ [][\A t \in SessionIds :
             /\ (threads'[t].pc = "done" /\ threads[t].pc # "done") =>
                    ~motor_states'[threads[t].motor]
             /\ threads[t].pc = "done" => threads'[t].pc = "done"]_vars

\* A session that was cancelled while its motor was on has ended.
C23_Witness ==
    \E t \in SessionIds :
        /\ threads[t].pc = "done"
        /\ threads[t].stop
        /\ chan_last[threads[t].motor] = "stop"
        /\ ~motor_states[threads[t].motor]

\* ---------------------------------------------------------------- C27
\* depth < t and height < t for the depth r - baseline and the height
\* baseline - r as detect_hazard computes them (t in centimetres).
DepthUnder(g, r, t) ==
    LET n == g.baseline_distance[2]
        d == r * n - g.baseline_distance[1]
    IN  IF d = t * n THEN r \in TieBelow(t) ELSE d < t * n

HeightUnder(g, r, t) ==
    LET n == g.baseline_distance[2]
        d == g.baseline_distance[1] - r * n
    IN  IF d = t * n THEN (g.baseline_distance[1] \div n) \in TieBelow(t) ELSE d < t * n

\* C27: the description of a drop_off is bucketed by its depth: below 0.15
\* small depression, [0.15, 0.20) pothole, [0.20, 0.30) curb or step down,
\* [0.30, 0.50) large drop-off, 0.50 and more stairs or major drop; that of
\* a raised_surface by its height: below 0.10 bump or crack, [0.10, 0.15)
\* curb, [0.15, 0.20) step up, 0.20 and more stairs or large obstacle.
\* Every critical drop_off is a large drop-off or stairs / major drop.
C27_DescriptionBuckets ==
    (cl_in.kind = "hazard" /\ cl_out # NoCall /\ cl_out # NoHazard) =>
        LET g == ground_detector
            r == cl_in.raw
            D(t) == DepthUnder(g, r, t)
            H(t) == HeightUnder(g, r, t)
        IN  /\ cl_out.type = "drop_off" =>
                  /\ D(15) => cl_out.description = "Small depression"
                  /\ (~D(15) /\ D(20)) => cl_out.description = "Pothole detected"
                  /\ (~D(20) /\ D(30)) => cl_out.description = "Curb or step down"
                  /\ (~D(30) /\ D(50)) => cl_out.description = "Large drop-off"
                  /\ ~D(50) => cl_out.description = "Stairs or major drop - DANGER"
                  /\ cl_out.severity = "critical" =>
                         cl_out.description \in {"Large drop-off",
                                                 "Stairs or major drop - DANGER"}
            /\ cl_out.type = "raised_surface" =>
                  /\ H(10) => cl_out.description = "Small bump or crack"
                  /\ (~H(10) /\ H(15)) => cl_out.description = "Curb detected"
                  /\ (~H(15) /\ H(20)) => cl_out.description = "Step up ahead"
                  /\ ~H(20) => cl_out.description = "Stairs or large obstacle"

\* A reading of 1.30 m against the baseline 1.00 m: a critical drop_off, and
\* a large drop-off.
C27_Witness ==
    /\ cl_in.kind = "hazard"
    /\ ground_detector = CalibratedDetector
    /\ cl_in.raw = 130
    /\ cl_out # NoCall
    /\ cl_out # NoHazard
    /\ cl_out.severity = "critical"
    /\ cl_out.description = "Large drop-off"

\* ---------------------------------------------------------------- C24
StageRank(e) ==
    CASE e.stage = "filter" -> 1
      [] e.stage = "classify" -> 2
      [] e.stage = "transition" -> 3
      [] e.stage = "log" -> 4

\* C24: within one tick the stages run in order: the filtering of all
\* readings before any classification, all classification before any
\* alert() / stop() call, and all these calls before any logging call.
C24_StagesInOrder ==
    \A i \in 1..Len(stages) : \A j \in i..Len(stages) :
        StageRank(stages[i]) <= StageRank(stages[j])

\* ---------------------------------------------------------------- C25
\* C25: within one tick each motor is the target of at most one alert() or
\* stop() call.
C25_OneTransitionPerChannel ==
    \A i \in 1..Len(stages) : \A j \in 1..Len(stages) :
        (i < j /\ stages[i].stage = "transition" /\ stages[j].stage = "transition")
            => stages[i].on # stages[j].on

\* ---------------------------------------------------------------- C26
\* C26: every value stored in an upper-body sensor's history is the
\* temperature-conditioned reading of that sensor, the value the zone
\* classifier is given; and a sensor's history changes only by the append
\* of that sensor's own reading at the start of a tick.
C26_HistoryHoldsConditionedReadings ==
    /\ [](\A s \in UpperSensors :
             (det_pc = "obstacles" /\ det_idx = 1 /\ sensor_data[s] # None) =>
                 sensor_history[s][Len(sensor_history[s])]
                     = adjust_for_temperature(sensor_data[s], temperature))
    /\ [][\A s \in SensorNames :
             sensor_history'[s] # sensor_history[s] =>
                 /\ det_pc = "loop" /\ det_pc' = "obstacles"
                 /\ sensor_data'[s] # None
                 /\ sensor_history'[s] =
                        LastN(Append(sensor_history[s], sensor_data'[s]), HISTORY_KEEP)]_vars

\* ---------------------------------------------------------------- C28
\* C28: at any time at most one detection thread is inside a tick,
\* whatever start() and stop() calls were made.
C28_AtMostOneDetectionLoop ==
    Cardinality({ i \in 1..MaxLoops : loops[i] = "tick" }) <= 1

\* ---------------------------------------------------------------- C31
\* C31: every session whose cancellation flag is false is the session
\* registered in active_alerts for its motor, so stop() and stop_all() can
\* cancel every session that is not cancelled yet.
C31_UncancelledIsRegistered ==
    \A t \in SessionIds :
        (threads[t].pc # "none" /\ ~threads[t].stop) =>
            active_alerts[threads[t].motor] = t

\* ---------------------------------------------------------------- C32
\* C32: a motor is on only while a session thread of that motor is live;
\* when every session thread of a motor has ended the motor is off.
C32_MotorOnOnlyWithLiveSession ==
    \A m \in Motors : motor_states[m] => LiveOn(m) # {}

\* A motor is on, driven by a live session, after another session of the
\* same motor has ended.
C32_Witness ==
    \E m \in Motors : \E t \in SessionIds : \E u \in SessionIds :
        /\ motor_states[m]
        /\ t \in LiveOn(m)
        /\ threads[u].motor = m
        /\ threads[u].pc = "done"

\* ---------------------------------------------------------------- C33
\* C33: no hazard detect_hazard returns is described as 'Small depression'
\* or 'Small bump or crack': a drop_off has depth above 0.15 and a
\* raised_surface has height above 0.10.  A drop_off whose deviation is
\* exactly 0.30 (neither above nor below it, as computed) has severity
\* warning and the description 'Large drop-off'.
C33_SmallBucketsNeverReturned ==
    (cl_in.kind = "hazard" /\ cl_out # NoCall /\ cl_out # NoHazard) =>
        LET g == ground_detector
            r == cl_in.raw
        IN  /\ cl_out.description \notin {"Small depression", "Small bump or crack"}
            /\ cl_out.type = "drop_off" => DeviationAbove(g, r, 15)
            /\ cl_out.type = "raised_surface" => DeviationBelow(g, r, 10)
            /\ (cl_out.type = "drop_off" /\ ~DeviationAbove(g, r, 30)
                   /\ ~DepthUnder(g, r, 30)) =>
                  /\ cl_out.severity = "warning"
                  /\ cl_out.description = "Large drop-off"

\* A reading of 0.63 m against the baseline 0.33 m: the deviation is the
\* double 0.3, the drop_off is a warning and a large drop-off.
C33_Witness ==
    /\ cl_in.kind = "hazard"
    /\ ground_detector = DetectorOf(Repeat(33, GROUND_CALIBRATION_SAMPLES))
    /\ cl_in.raw = 63
    /\ cl_out # NoCall
    /\ cl_out # NoHazard
    /\ cl_out.type = "drop_off"
    /\ cl_out.depth = << 30 * 40, 40 >>
    /\ cl_out.severity = "warning"
    /\ cl_out.description = "Large drop-off"

=============================================================================
